---- MODULE Spec2Model ----
(***************************************************************************)
(* defsim: the fixed-step tick engine (src/src/simulation.rs) and the      *)
(* agent behaviour it invokes (src/src/models/*.rs).                       *)
(*                                                                         *)
(* Geometry.  Positions are records [x, y, z] of integers (metres).  The   *)
(* scenarios drawn here put the command post, the sensors and the          *)
(* launchers on the vertical through the origin and the targets on the     *)
(* x-axis line y = 0, with integer dt, speeds and accelerations, so every  *)
(* f64 value the engine computes is an integer it represents exactly.      *)
(* Distances are compared through their squares (sqrt is monotone and      *)
(* exact on perfect squares).  Time-to-go is kept as a fraction and        *)
(* compared by cross-multiplication.  Missile attitude (pitch/yaw) is an   *)
(* output only and is not modelled.                                        *)
(***************************************************************************)
EXTENDS Integers, Sequences, FiniteSets, TLC

VARIABLES
    scenario,        \* SimulationEngine.scenario_config
    pc,              \* position inside run()/step()
    current_time,    \* SimulationEngine.current_time
    step_count,      \* SimulationEngine.step_count
    command_post,    \* SimulationEngine.command_post
    sensors,         \* SimulationEngine.sensors   (Vec, insertion order)
    launchers,       \* SimulationEngine.launchers (Vec, insertion order)
    targets,         \* SimulationEngine.targets   (Vec, insertion order)
    missiles,        \* SimulationEngine.missiles  (Vec, insertion order)
    target_clock,    \* static mut CURRENT_TIME inside Target::tick
    sensor_clock,    \* static mut CURRENT_TIME inside Sensor::tick
    returned         \* what the last call on a driven CommandPost returned

vars == <<scenario, pc, current_time, step_count, command_post, sensors,
          launchers, targets, missiles, target_clock, sensor_clock, returned>>

-----------------------------------------------------------------------------
(* Program constants *)

\* run(): `if self.step_count > 10000 { break; }`
MaxSteps == 10000
\* Position3D::new: z.clamp(0.0, 5000.0)
ZMax == 5000
\* Position3D::is_in_simulation_bounds: +-1_000_000
RegionMax == 1000000
\* update_guidance_phase: Boost -> Midcourse when flight_time > 2.0
BoostTime == 2
\* track_miss_distance: history keeps the last 10 entries
HistoryLimit == 10
\* Sensor::tick: events older than 60 s are dropped
HistoryWindow == 60

-----------------------------------------------------------------------------
(* Bounds of the explored scenarios *)

MaxDt == 2
MaxTime == 8
MaxLaunchers == 2
MaxMagazine == 2
MaxEndurance == 2

-----------------------------------------------------------------------------
(* Vector math (common.rs) *)

Min(a, b) == IF a < b THEN a ELSE b
Max(a, b) == IF a > b THEN a ELSE b
Abs(a) == IF a < 0 THEN -a ELSE a
Clamp(v, lo, hi) == IF v < lo THEN lo ELSE IF v > hi THEN hi ELSE v

\* Position3D::new clamps the altitude
Position3D(x, y, z) == [x |-> x, y |-> y, z |-> Clamp(z, 0, ZMax)]
\* Velocity3D::new / Acceleration3D::new do not clamp
Vec3(x, y, z) == [x |-> x, y |-> y, z |-> z]

\* impl Add / Sub for Position3D go through Position3D::new
PosAdd(a, b) == Position3D(a.x + b.x, a.y + b.y, a.z + b.z)
PosSub(a, b) == Position3D(a.x - b.x, a.y - b.y, a.z - b.z)

Origin == Position3D(0, 0, 0)

\* squares of distance_xy / distance_3d (raw differences, no clamping)
DistXYSq(a, b) == (a.x - b.x) * (a.x - b.x) + (a.y - b.y) * (a.y - b.y)
Dist3DSq(a, b) == DistXYSq(a, b) + (a.z - b.z) * (a.z - b.z)

\* distance_xy for two points with equal y (all points of the model)
DistXY(a, b) == Abs(a.x - b.x)
\* distance_3d for two points on one vertical
DistVertical(a, b) == Abs(a.z - b.z)

\* distance_3d where the square root is exact: along one axis, or a perfect
\* square
Dist3D(a, b) ==
    IF a.x = b.x /\ a.y = b.y THEN Abs(a.z - b.z)
    ELSE IF a.y = b.y /\ a.z = b.z THEN Abs(a.x - b.x)
    ELSE CHOOSE r \in 0..(Abs(a.x - b.x) + Abs(a.y - b.y) + Abs(a.z - b.z)) :
             r * r = Dist3DSq(a, b)

is_in_simulation_bounds(p) ==
    /\ p.x >= -RegionMax /\ p.x <= RegionMax
    /\ p.y >= -RegionMax /\ p.y <= RegionMax
    /\ p.z >= 0 /\ p.z <= ZMax

Sgn(a) == IF a > 0 THEN 1 ELSE IF a < 0 THEN -1 ELSE 0

\* the element of a one-element set.  Only({ F(x) : x \in {e} }) is F at the
\* value of e: it sequences two statements, the second working on what the
\* first has left
Only(S) == CHOOSE x \in S : TRUE

-----------------------------------------------------------------------------
(* Scenarios (scenario.rs: ScenarioConfig, the fields the engine reads) *)

\* String::cmp on the target IDs that occur (lexicographic order)
TargetIdOrder == <<"G001_T001", "G002_T001", "G003_T001">>
IdRank(id) == CHOOSE i \in 1..Len(TargetIdOrder) : TargetIdOrder[i] = id
IdLess(a, b) == IdRank(a) < IdRank(b)

\* sim.dt_s
DtValues == 1..MaxDt
\* sim.t_max_s: short runs, and one run long enough to meet the step cap
LongTime == MaxSteps + 5

\* friendly_forces.sensors: one wide sensor at the command post
SensorConfigs == << [id |-> "S001", x |-> 0, y |-> 0, z |-> 0, range_m |-> 5000] >>
\* friendly_forces.sensors: the wide sensor and a short one beside it
TwoSensorConfigs ==
    << [id |-> "S001", x |-> 0, y |-> 0, z |-> 0, range_m |-> 5000],
       [id |-> "S002", x |-> 0, y |-> 0, z |-> 0, range_m |-> 250] >>

\* friendly_forces.launchers: n launchers at the origin
LauncherIds == <<"L001", "L002", "L003">>
LauncherConfigs(n, mag, cd) ==
    [i \in 1..n |-> [id |-> LauncherIds[i], x |-> 0, y |-> 0, z |-> 0,
                     missiles_loaded |-> mag, cooldown_s |-> cd]]

\* enemy_forces.groups, each of count 1 (generate_positions puts the single
\* target at center_xy)
GroupConfig(gid, x, spawn, end, spd) ==
    [id |-> gid, x |-> x, y |-> 0, z |-> 0, count |-> 1,
     spawn_time_s |-> spawn, endurance_pt |-> end, speed_mps |-> spd]

FirstGroups ==
    { GroupConfig("G001", 300, spawn, end, spd) :
        spawn \in {0, 3}, end \in 1..MaxEndurance, spd \in {0, 100} }
SecondGroups == { GroupConfig("G002", 300, 0, 1, 100) }
GroupSets == { <<g>> : g \in FirstGroups }
             \cup { <<g, h>> : g \in FirstGroups, h \in SecondGroups }

\* missile_defaults.kinematics and policy.missile_guidance
Kinematics(ir) ==
    [initial_speed_mps |-> 300, max_speed_mps |-> 1200, max_accel_mps2 |-> 80,
     intercept_radius_m |-> ir]
Guidance == [endgame_factor |-> 2, endgame_miss_increase_ticks |-> 3]
InterceptRadii == {50, 400}

ScenarioConfig(dt, tmax, n, mag, cd, cooled, groups, ir) ==
    [dt_s |-> dt, t_max_s |-> tmax,
     cp_x |-> 0, cp_y |-> 0, arrival_radius_m |-> 100,
     launcher_initially_cooled |-> cooled,
     sensors |-> SensorConfigs,
     launchers |-> LauncherConfigs(n, mag, cd),
     groups |-> groups,
     kinematics |-> Kinematics(ir),
     guidance |-> Guidance]

ShortScenarios ==
    { ScenarioConfig(dt, MaxTime, n, mag, 3, cooled, groups, ir) :
        dt \in DtValues, n \in 1..MaxLaunchers, mag \in 1..MaxMagazine,
        cooled \in BOOLEAN, groups \in GroupSets, ir \in InterceptRadii }
\* two groups spawned together, equal in tgo: G001 as far as G002 or
\* farther and faster, with endurance_pt 0 or 1
TieGroupSets ==
    { << GroupConfig("G001", shape[1], 0, e1, shape[2]),
         GroupConfig("G002", 300, 0, e2, 100) >> :
        shape \in { <<500, 200>>, <<300, 100>> }, e1 \in 0..1, e2 \in 0..1 }
TieScenarios ==
    { ScenarioConfig(1, MaxTime, n, 1, 3, TRUE, groups, 50) :
        n \in 1..MaxLaunchers, groups \in TieGroupSets }
\* a target closing in alone, or beside one that stands still out of the
\* short sensor's range, under two sensors
TwoSensorScenarios ==
    { [ScenarioConfig(1, MaxTime, 1, 1, 3, TRUE, groups, 50)
           EXCEPT !.sensors = TwoSensorConfigs] :
        groups \in { << GroupConfig("G001", 300, 0, 1, 100) >>,
                     << GroupConfig("G001", 300, 0, 1, 0),
                        GroupConfig("G002", 300, 0, 1, 100) >> } }
LongScenarios ==
    { ScenarioConfig(1, LongTime, 1, 1, 3, TRUE,
                     <<GroupConfig("G001", 300, 0, 1, 0)>>, 50) }

\* ScenarioConfig::validate
validate(s) ==
    /\ s.dt_s > 0
    /\ s.t_max_s > 0
    /\ \A i \in 1..Len(s.groups) : s.groups[i].spawn_time_s < s.t_max_s

Scenarios ==
    { s \in ShortScenarios \cup TieScenarios \cup TwoSensorScenarios
              \cup LongScenarios : validate(s) }

-----------------------------------------------------------------------------
(* Target (target.rs) *)

\* Target::new followed by Target::set_parameters, as generate_targets calls
\* them.  direction = destination - position goes through Position3D::new,
\* and for a target with the destination's y it is (dx, 0, 0) of magnitude
\* |dx|, so velocity = (sgn(dx) * speed, 0, 0).
Target_new(id, start_position, destination, group_id, arrival_radius, endurance, spawn_time, speed) ==
    LET direction == PosSub(destination, start_position)
    IN  [id |-> id,
         position |-> start_position,
         velocity |-> Vec3(Sgn(direction.x) * speed, 0, 0),
         destination |-> destination,
         arrival_radius |-> arrival_radius,
         endurance |-> endurance,
         max_endurance |-> endurance,
         status |-> "Inactive",
         group_id |-> group_id,
         spawn_time |-> spawn_time,
         speed |-> speed]

Target_is_active(t) == t.status = "Active"

\* Target::check_spawn
check_spawn(t, now) ==
    IF t.status = "Inactive" /\ now >= t.spawn_time
    THEN [t EXCEPT !.status = "Active"]
    ELSE t

\* take_damage without the status test
take_damage_any_status(t, damage) ==
    LET e == Max(0, t.endurance - damage)
    IN  [t EXCEPT !.endurance = e,
                  !.status = IF e = 0 THEN "Destroyed" ELSE @]

\* Target::take_damage (saturating_sub)
take_damage(t, damage) ==
    IF t.status = "Active"
    THEN LET e == Max(0, t.endurance - damage)
         IN  [t EXCEPT !.endurance = e,
                       !.status = IF e = 0 THEN "Destroyed" ELSE @]
    ELSE t

\* IMovable::move_agent for Target
Target_move_agent(t, dt) ==
    IF t.status = "Active"
    THEN LET p == PosAdd(t.position,
                         Position3D(t.velocity.x * dt, t.velocity.y * dt,
                                    t.velocity.z * dt))
         IN  [t EXCEPT !.position = [p EXCEPT !.z = Clamp(p.z, 0, ZMax)]]
    ELSE t

\* Target::check_arrival
check_arrival(t) ==
    IF t.status = "Active" /\ DistXY(t.position, t.destination) <= t.arrival_radius
    THEN [t EXCEPT !.status = "Reached"]
    ELSE t

\* Target::check_out_of_bounds
check_out_of_bounds(t) ==
    IF t.status = "Active" /\ ~is_in_simulation_bounds(t.position)
    THEN [t EXCEPT !.status = "Inactive"]
    ELSE t

\* tick with the out-of-bounds test made before the arrival test
Target_tick_bounds_first(t, dt, clock) ==
    LET move(spawned) ==
            IF spawned.status = "Active"
            THEN Only({ check_arrival(bounded) :
                        bounded \in { check_out_of_bounds(moved) :
                        moved \in { Target_move_agent(spawned, dt) } } })
            ELSE spawned
    IN  Only({ move(spawned) : spawned \in { check_spawn(t, clock) } })

\* IAgent::tick for Target; `clock` is the value of its static CURRENT_TIME
\* after this call's `CURRENT_TIME += dt`
Target_tick(t, dt, clock) ==
    LET move(spawned) ==
            IF spawned.status = "Active"
            THEN Only({ check_out_of_bounds(arrived) :
                        arrived \in { check_arrival(moved) :
                        moved \in { Target_move_agent(spawned, dt) } } })
            ELSE spawned
    IN  Only({ move(spawned) : spawned \in { check_spawn(t, clock) } })

\* Target::calculate_time_to_go, as the fraction num / den (inf: f64::INFINITY)
calculate_time_to_go(t) ==
    IF t.status # "Active" \/ ~(t.speed > 0)
    THEN [inf |-> TRUE, num |-> 0, den |-> 1]
    ELSE [inf |-> FALSE,
          num |-> Max(DistXY(t.position, t.destination) - t.arrival_radius, 0),
          den |-> t.speed]

\* TargetGroup::generate_targets for a group of count 1: the single target
\* sits at the group centre and is named <group>_T001
generate_targets(g, s) ==
    << Target_new(g.id \o "_T001",
                  Position3D(g.x, g.y, g.z),
                  Position3D(s.cp_x, s.cp_y, 0),
                  g.id, s.arrival_radius_m, g.endurance_pt,
                  g.spawn_time_s, g.speed_mps) >>

-----------------------------------------------------------------------------
(* Sensor (sensor.rs) *)

\* Sensor::new followed by IAgent::initialize
Sensor_new(c) ==
    [id |-> c.id,
     position |-> Position3D(c.x, c.y, c.z),
     detection_range |-> c.range_m,
     status |-> "Active",
     detected_targets |-> {},
     detection_history |-> <<>>]

Sensor_is_active(s) == s.status = "Active"

\* a faulty range test: the boundary is left out (C19 tells the two apart)
InRange_strict(s, t) ==
    Dist3DSq(s.position, t.position) < s.detection_range * s.detection_range

\* distance_3d(sensor, target) <= detection_range
InRange(s, t) ==
    /\ Abs(s.position.x - t.position.x) <= s.detection_range
    /\ Abs(s.position.z - t.position.z) <= s.detection_range
    /\ Dist3DSq(s.position, t.position) <= s.detection_range * s.detection_range

\* the orders in which a HashSet holding S may be iterated
IterationOrders(S) ==
    { q \in [1..Cardinality(S) -> S] :
        \A i, j \in 1..Cardinality(S) : i # j => q[i] # q[j] }

\* a faulty first loop: every detection is recorded as FirstDetected (C20
\* tells the two apart)
RECURSIVE DetectionEvents_always_first(_, _, _)
DetectionEvents_always_first(s, tgts, now) ==
    IF tgts = <<>> THEN <<>>
    ELSE LET t == Head(tgts)
         IN  IF Target_is_active(t) /\ InRange(s, t)
             THEN << [timestamp |-> now,
                      target_id |-> t.id,
                      target_position |-> t.position,
                      distance |-> Dist3D(s.position, t.position),
                      event_type |-> "FirstDetected"] >>
                  \o DetectionEvents_always_first(s, Tail(tgts), now)
             ELSE DetectionEvents_always_first(s, Tail(tgts), now)

\* the first loop of detect_targets: the events pushed for the targets, in
\* the order of the slice
RECURSIVE DetectionEvents(_, _, _)
DetectionEvents(s, tgts, now) ==
    IF tgts = <<>> THEN <<>>
    ELSE LET t == Head(tgts)
         IN  IF Target_is_active(t) /\ InRange(s, t)
             THEN << [timestamp |-> now,
                      target_id |-> t.id,
                      target_position |-> t.position,
                      distance |-> Dist3D(s.position, t.position),
                      event_type |-> IF t.id \in s.detected_targets
                                     THEN "Tracking" ELSE "FirstDetected"] >>
                  \o DetectionEvents(s, Tail(tgts), now)
             ELSE DetectionEvents(s, Tail(tgts), now)

\* currently_detected at the end of the first loop of detect_targets
CurrentlyDetected(s, tgts) ==
    { tgts[i].id : i \in { j \in 1..Len(tgts) :
                             Target_is_active(tgts[j]) /\ InRange(s, tgts[j]) } }

\* the second loop of detect_targets: one Lost event per ID of the old set
\* that is not in the new one, in the order `order` in which the old
\* HashSet is iterated
LostEvents(s, tgts, now, order) ==
    LET lost == SelectSeq(order, LAMBDA id : id \notin CurrentlyDetected(s, tgts))
    IN  [k \in 1..Len(lost) |->
            [timestamp |-> now,
             target_id |-> lost[k],
             target_position |-> Position3D(0, 0, 0),
             distance |-> 0,
             event_type |-> "Lost"]]

\* Sensor::detect_targets (through Sensor::update_detections); order is the
\* iteration order of self.detected_targets
detect_targets(s, tgts, now, order) ==
    [s EXCEPT !.detected_targets = CurrentlyDetected(s, tgts),
              !.detection_history =
                  @ \o DetectionEvents(s, tgts, now)
                    \o LostEvents(s, tgts, now, order)]

\* IAgent::tick for Sensor; `clock` is the value of its static CURRENT_TIME
\* after this call's `CURRENT_TIME += dt`
Sensor_tick(s, clock) ==
    IF ~Sensor_is_active(s) THEN s
    ELSE [s EXCEPT !.detection_history =
              SelectSeq(@, LAMBDA e : e.timestamp >= clock - HistoryWindow)]

-----------------------------------------------------------------------------
(* Missile (missile.rs) *)

\* format!("{:03}", n)
Pad3(n) == IF n < 1000 THEN <<n \div 100, (n \div 10) % 10, n % 10>>
           ELSE <<n>>

\* Missile::new alone, as the launcher's fire functions return it
Missile_created(id, launch_position, target_id) ==
    [id |-> id,
     position |-> launch_position,
     velocity |-> Vec3(0, 0, 0),
     acceleration |-> Vec3(0, 0, 0),
     target_id |-> target_id,
     status |-> "Active",
     max_speed |-> 0,
     max_accel |-> 0,
     intercept_radius |-> 0,
     guidance_phase |-> "Boost",
     endgame_threshold |-> 0,
     miss_distance_history |-> <<>>,
     miss_increase_count |-> 0,
     endgame_miss_increase_ticks |-> 0,
     flight_time |-> 0,
     total_distance |-> 0,
     end_reason |-> "None"]

\* Missile::new followed by IAgent::initialize (simulation.rs:334-335)
Missile_new(id, launch_position, target_id, s) ==
    [id |-> id,
     position |-> launch_position,
     velocity |-> Vec3(0, 0, s.kinematics.initial_speed_mps),
     acceleration |-> Vec3(0, 0, 0),
     target_id |-> target_id,
     status |-> "Active",
     max_speed |-> s.kinematics.max_speed_mps,
     max_accel |-> s.kinematics.max_accel_mps2,
     intercept_radius |-> s.kinematics.intercept_radius_m,
     guidance_phase |-> "Boost",
     endgame_threshold |->
         s.kinematics.intercept_radius_m * s.guidance.endgame_factor,
     miss_distance_history |-> <<>>,
     miss_increase_count |-> 0,
     endgame_miss_increase_ticks |-> s.guidance.endgame_miss_increase_ticks,
     flight_time |-> 0,
     total_distance |-> 0,
     end_reason |-> "None"]

Missile_is_active(m) == m.status = "Active"

\* Missile::calculate_direct_pursuit, for a target on the missile's vertical
calculate_direct_pursuit(m, target_position) ==
    LET direction == PosSub(target_position, m.position)
    IN  IF direction.z = 0 THEN Vec3(0, 0, 0)
        ELSE Vec3(0, 0, Sgn(direction.z) * m.max_accel)

\* Missile::calculate_proportional_navigation, for a target on the missile's
\* vertical and a vertical velocity: relative_position goes through
\* Position3D::new, so a target at or below the missile gives the zero
\* vector; above it the line of sight is (0, 0, 1), the closing velocity is
\* -velocity.z and the line-of-sight rate (velocity x los) is zero.
calculate_proportional_navigation(m, target_position) ==
    LET relative_position == PosSub(target_position, m.position)
        closing_velocity == -(m.velocity.z * Sgn(relative_position.z))
    IN  IF relative_position.z = 0 THEN Vec3(0, 0, 0)
        ELSE IF closing_velocity <= 0
             THEN calculate_direct_pursuit(m, target_position)
             ELSE Vec3(0, 0, 0)

\* clamp_magnitude of a vertical vector
ClampVertical(v, bound) ==
    IF Abs(v.z) > bound THEN Vec3(0, 0, Sgn(v.z) * bound) ELSE v

\* a faulty update_kinematics: the speed limit is applied before the
\* acceleration is integrated instead of after (C33 tells the two apart)
update_kinematics_clip_first(m, dt, target_position) ==
    LET guidance_accel == calculate_proportional_navigation(m, target_position)
        commanded == IF m.guidance_phase = "Boost"
                     THEN Vec3(guidance_accel.x \div 2, guidance_accel.y \div 2,
                               m.max_accel \div 2)
                     ELSE guidance_accel
        acceleration == ClampVertical(commanded, m.max_accel)
        clipped == ClampVertical(m.velocity, m.max_speed)
        velocity == Vec3(clipped.x + acceleration.x * dt,
                         clipped.y + acceleration.y * dt,
                         clipped.z + acceleration.z * dt)
        moved == PosAdd(m.position, Position3D(velocity.x * dt, velocity.y * dt,
                                               velocity.z * dt))
        position == [moved EXCEPT !.z = Clamp(@, 0, ZMax)]
    IN  [m EXCEPT !.acceleration = acceleration,
                  !.velocity = velocity,
                  !.position = position,
                  !.flight_time = @ + dt,
                  !.total_distance = @ + DistVertical(m.position, position)]

\* Missile::update_kinematics, statement by statement (max_accel is even in
\* every scenario, so max_accel * 0.5 is an integer)
update_kinematics(m, dt, target_position) ==
    LET guide(s0) ==
            LET guidance_accel ==
                    calculate_proportional_navigation(s0, target_position)
            IN  [s0 EXCEPT !.acceleration =
                    IF s0.guidance_phase = "Boost"
                    THEN Vec3(guidance_accel.x \div 2, guidance_accel.y \div 2,
                              s0.max_accel \div 2)
                    ELSE guidance_accel]
        saturate(s1) ==
            [s1 EXCEPT !.acceleration = ClampVertical(@, s1.max_accel)]
        integrate(s2) ==
            [s2 EXCEPT !.velocity = Vec3(@.x + s2.acceleration.x * dt,
                                         @.y + s2.acceleration.y * dt,
                                         @.z + s2.acceleration.z * dt)]
        clip(s3) ==
            [s3 EXCEPT !.velocity = ClampVertical(@, s3.max_speed)]
        advance_position(s4) ==
            [s4 EXCEPT !.position =
                PosAdd(@, Position3D(s4.velocity.x * dt, s4.velocity.y * dt,
                                     s4.velocity.z * dt))]
        limit_altitude(s5) ==
            [s5 EXCEPT !.position.z = Clamp(@, 0, ZMax)]
        statistics(s6) ==
            [s6 EXCEPT !.flight_time = @ + dt,
                       !.total_distance =
                           @ + DistVertical(m.position, s6.position)]
    IN  Only({ statistics(s6) :
               s6 \in { limit_altitude(s5) :
               s5 \in { advance_position(s4) :
               s4 \in { clip(s3) :
               s3 \in { integrate(s2) :
               s2 \in { saturate(s1) :
               s1 \in { guide(s0) : s0 \in {m} } } } } } } })

\* update_guidance_phase falling through from Boost to Endgame in one call
update_guidance_phase_cascading(m, target_position) ==
    LET distance == DistVertical(m.position, target_position)
    IN  IF m.guidance_phase = "Boost" /\ m.flight_time > BoostTime
        THEN [m EXCEPT !.guidance_phase =
                 IF distance <= m.endgame_threshold THEN "Endgame"
                 ELSE "Midcourse"]
        ELSE IF m.guidance_phase = "Midcourse" /\ distance <= m.endgame_threshold
        THEN [m EXCEPT !.guidance_phase = "Endgame"]
        ELSE m

\* Missile::update_guidance_phase
update_guidance_phase(m, target_position) ==
    LET distance == DistVertical(m.position, target_position)
    IN  IF m.guidance_phase = "Boost" /\ m.flight_time > BoostTime
        THEN [m EXCEPT !.guidance_phase = "Midcourse"]
        ELSE IF m.guidance_phase = "Midcourse" /\ distance <= m.endgame_threshold
        THEN [m EXCEPT !.guidance_phase = "Endgame"]
        ELSE m

\* Missile::track_miss_distance
track_miss_distance(m, target_position) ==
    LET pushed == Append(m.miss_distance_history,
                         DistVertical(m.position, target_position))
        hist == IF Len(pushed) > HistoryLimit THEN Tail(pushed) ELSE pushed
        len == Len(hist)
        m1 == [m EXCEPT !.miss_distance_history = hist]
    IN  IF m.guidance_phase = "Endgame" /\ len >= 2
        THEN LET count == IF hist[len] > hist[len - 1]
                          THEN m.miss_increase_count + 1 ELSE 0
                 m2 == [m1 EXCEPT !.miss_increase_count = count]
             IN  IF count >= m.endgame_miss_increase_ticks
                 THEN [m2 EXCEPT !.status = "SelfDestruct",
                                 !.end_reason = "SelfDestruct"]
                 ELSE m2
        ELSE m1

\* check_collision with the boundary left out
check_collision_strict(m, target_position) ==
    DistVertical(m.position, target_position) < m.intercept_radius

\* ICollision::check_collision
check_collision(m, target_position) ==
    DistVertical(m.position, target_position) <= m.intercept_radius

\* Missile::perform_checks
perform_checks(m, target_position) ==
    IF ~is_in_simulation_bounds(m.position)
    THEN [m EXCEPT !.status = "SelfDestruct", !.end_reason = "OutOfBounds"]
    ELSE LET track(phased) == track_miss_distance(phased, target_position)
             collide(tracked) ==
                 IF check_collision(tracked, target_position)
                 THEN [tracked EXCEPT !.status = "Destroyed",
                                      !.end_reason = "Hit"]
                 ELSE tracked
         IN  Only({ collide(tracked) :
                    tracked \in { track(phased) :
                    phased \in { update_guidance_phase(m, target_position) } } })

\* the target position Missile::tick guides against
TickTargetPosition == Position3D(0, 0, 0)

\* IAgent::tick for Missile
Missile_tick(m, dt) ==
    IF m.status # "Active" THEN m
    ELSE Only({ perform_checks(moved, TickTargetPosition) :
                moved \in { update_kinematics(m, dt, TickTargetPosition) } })

-----------------------------------------------------------------------------
(* Launcher (launcher.rs) *)

\* Launcher::new followed by IAgent::initialize
Launcher_new(c, s) ==
    [id |-> c.id,
     position |-> Position3D(c.x, c.y, c.z),
     status |-> "Active",
     max_missiles |-> c.missiles_loaded,
     current_missiles |-> c.missiles_loaded,
     cooldown_time |-> c.cooldown_s,
     cooldown_remaining |->
         IF s.launcher_initially_cooled THEN 0 ELSE c.cooldown_s,
     launch_history |-> <<>>,
     missile_counter |-> 0]

Launcher_is_active(l) == l.status = "Active"

\* a faulty can_launch: it does not look at the cooldown (C13 tells the
\* two apart)
can_launch_ignoring_cooldown(l) ==
    /\ l.status = "Active"
    /\ l.current_missiles > 0

\* IPlatform::can_launch
can_launch(l) ==
    /\ l.status = "Active"
    /\ l.current_missiles > 0
    /\ l.cooldown_remaining <= 0

\* the ID fire_missile_at_target mints: format!("{}_{:03}", id, counter)
MissileId(launcher_id, counter) == <<launcher_id, "_", Pad3(counter)>>

\* a faulty fire_missile_at_target: it reuses the serial of the last missile
\* (C14 tells the two apart)
fire_missile_at_target_same_serial(l, target_id) ==
    [l EXCEPT !.current_missiles = @ - 1,
              !.cooldown_remaining = l.cooldown_time,
              !.launch_history =
                  Append(@, [timestamp |-> 0,
                             missile_id |-> MissileId(l.id, l.missile_counter),
                             target_id |-> target_id,
                             launch_position |-> l.position])]

\* Launcher::fire_missile_at_target, the launcher after a successful fire
\* (the caller has checked can_launch)
fire_missile_at_target(l, target_id) ==
    LET counter == l.missile_counter + 1
    IN  [l EXCEPT !.current_missiles = @ - 1,
                  !.cooldown_remaining = l.cooldown_time,
                  !.missile_counter = counter,
                  !.launch_history =
                      Append(@, [timestamp |-> 0,
                                 missile_id |-> MissileId(l.id, counter),
                                 target_id |-> target_id,
                                 launch_position |-> l.position])]

\* Launcher::fire_missile_at_target as a call: the launcher it leaves and
\* the Option<Missile> it returns (<<>> for None, <<m>> for Some(m))
fire_at_target(l, target_id) ==
    IF ~can_launch(l) THEN [launcher |-> l, missile |-> <<>>]
    ELSE Only({ [launcher |-> fired,
                 missile |-> << Missile_created(
                                    MissileId(l.id, fired.missile_counter),
                                    fired.position, target_id) >>] :
                fired \in { fire_missile_at_target(l, target_id) } })

\* the ID fire_missile mints: format!("{}_M{:03}", id, counter)
MissileIdM(launcher_id, counter) == <<launcher_id, "_M", Pad3(counter)>>

\* Launcher::fire_missile as a call
fire_missile(l, target_id, now) ==
    IF ~can_launch(l) THEN [launcher |-> l, missile |-> <<>>]
    ELSE LET counter == l.missile_counter + 1
             missile_id == MissileIdM(l.id, counter)
         IN  [launcher |->
                  [l EXCEPT !.missile_counter = counter,
                            !.current_missiles = @ - 1,
                            !.cooldown_remaining = l.cooldown_time,
                            !.launch_history =
                                Append(@, [timestamp |-> now,
                                           missile_id |-> missile_id,
                                           target_id |-> target_id,
                                           launch_position |-> l.position])],
              missile |-> << Missile_created(missile_id, l.position,
                                             target_id) >>]

\* a faulty reload: it does not look at the room left in the magazine (C12
\* tells the two apart)
reload_unbounded(l, count) ==
    [l EXCEPT !.current_missiles = @ + count]

\* Launcher::reload
reload(l, count) ==
    [l EXCEPT !.current_missiles =
         @ + Min(count, l.max_missiles - l.current_missiles)]

\* Launcher::reload_full
reload_full(l) == [l EXCEPT !.current_missiles = l.max_missiles]

\* IAgent::initialize for Launcher on an existing launcher whose config is
\* c: missile_counter is left as it is
Launcher_initialize(l, c, s) ==
    [l EXCEPT !.status = "Active",
              !.launch_history = <<>>,
              !.max_missiles = c.missiles_loaded,
              !.current_missiles = c.missiles_loaded,
              !.cooldown_time = c.cooldown_s,
              !.cooldown_remaining =
                  IF s.launcher_initially_cooled THEN 0 ELSE c.cooldown_s]

\* a faulty tick: the cooldown runs down twice as fast as the time of the
\* simulation (C35 tells the two apart)
Launcher_tick_double_rate(l, dt) ==
    IF l.status # "Active" THEN l
    ELSE IF l.cooldown_remaining > 0
         THEN [l EXCEPT !.cooldown_remaining = Max(@ - 2 * dt, 0)]
         ELSE l

\* IAgent::tick for Launcher (the engine never queues targets, so the
\* launch_queue branch does nothing)
Launcher_tick(l, dt) ==
    IF l.status # "Active" THEN l
    ELSE IF l.cooldown_remaining > 0
         THEN [l EXCEPT !.cooldown_remaining = Max(@ - dt, 0)]
         ELSE l

-----------------------------------------------------------------------------
(* CommandPost (command_post.rs) *)

\* CommandPost::new
CommandPost_new(s) ==
    [id |-> "CP001",
     position |-> Position3D(s.cp_x, s.cp_y, 0),
     arrival_radius |-> s.arrival_radius_m,
     status |-> "Active",
     detected_targets |-> <<>>,
     missile_assignments |-> <<>>,
     target_priorities |-> <<>>]

\* missile_assignments.get(id).map(len).unwrap_or(0)
AssignedCount(assignments, target_id) ==
    IF target_id \in DOMAIN assignments THEN Len(assignments[target_id]) ELSE 0

\* partial_cmp on two times-to-go: -1 Less, 0 Equal, 1 Greater
TgoCmp(a, b) ==
    IF a.inf /\ b.inf THEN 0
    ELSE IF a.inf THEN 1
    ELSE IF b.inf THEN -1
    ELSE Sgn(a.num * b.den - b.num * a.den)

\* a faulty comparator: entries equal in tgo and distance compare Equal
\* (C15 tells the two apart)
PriorityLess_without_id(a, b) ==
    LET byTgo == TgoCmp(a.tgo, b.tgo)
        byDist == Sgn(a.distance_xy - b.distance_xy)
    IN  \/ byTgo < 0
        \/ byTgo = 0 /\ byDist < 0

\* the comparator of the sort in update_target_list
PriorityLess(a, b) ==
    LET byTgo == TgoCmp(a.tgo, b.tgo)
        byDist == Sgn(a.distance_xy - b.distance_xy)
    IN  \/ byTgo < 0
        \/ byTgo = 0 /\ byDist < 0
        \/ byTgo = 0 /\ byDist = 0 /\ IdLess(a.target_id, b.target_id)

\* insertion of one entry into a sorted list, after the entries not greater
\* than it (sort_by is stable)
RECURSIVE InsertSorted(_, _)
InsertSorted(p, sorted) ==
    IF sorted = <<>> THEN <<p>>
    ELSE IF PriorityLess(p, Head(sorted)) THEN <<p>> \o sorted
    ELSE <<Head(sorted)>> \o InsertSorted(p, Tail(sorted))

RECURSIVE SortPriorities(_)
SortPriorities(list) ==
    IF list = <<>> THEN <<>>
    ELSE InsertSorted(list[Len(list)], SortPriorities(SubSeq(list, 1, Len(list) - 1)))

RECURSIVE PrioritiesOf(_, _)
PrioritiesOf(cp, tgts) ==
    IF tgts = <<>> THEN <<>>
    ELSE LET t == Head(tgts)
             rest == PrioritiesOf(cp, Tail(tgts))
         IN  IF Target_is_active(t)
             THEN << [target_id |-> t.id,
                      tgo |-> calculate_time_to_go(t),
                      distance_xy |-> DistXY(t.position, cp.position),
                      assigned_missiles |->
                          AssignedCount(cp.missile_assignments, t.id),
                      target_endurance |-> t.endurance] >> \o rest
             ELSE rest

\* CommandPost::update_target_list
update_target_list(cp, tgts) ==
    [cp EXCEPT !.target_priorities = SortPriorities(PrioritiesOf(cp, tgts))]

\* the loop of select_best_launcher from launcher `index` (counted from 1)
\* on.  best.index = 0 stands for best_launcher_index = None with
\* best_cooldown = best_distance = INFINITY and best_id = "".  The ID the
\* code compares is format!("L{:03}", index + 1) of the 0-based index, which
\* orders as the index does, and "" is smaller than each of them.
RECURSIVE SelectLoop(_, _, _, _, _)
SelectLoop(cp, ls, target_position, index, best) ==
    IF index > Len(ls) THEN best
    ELSE LET launcher == ls[index]
             cooldown == launcher.cooldown_remaining
             distance == DistXY(target_position, cp.position)
             launcher_id == index
             is_better ==
                 IF best.index = 0 THEN TRUE
                 ELSE \/ cooldown < best.cooldown
                      \/ cooldown = best.cooldown /\ distance < best.distance
                      \/ /\ cooldown = best.cooldown
                         /\ distance = best.distance
                         /\ launcher_id < best.id
         IN  SelectLoop(cp, ls, target_position, index + 1,
                        IF can_launch(launcher) /\ is_better
                        THEN [index |-> index, cooldown |-> cooldown,
                              distance |-> distance, id |-> launcher_id]
                        ELSE best)

\* CommandPost::select_best_launcher: <<>> for None, <<i>> for Some(i - 1)
select_best_launcher(cp, ls, target_position) ==
    LET best == SelectLoop(cp, ls, target_position, 1,
                           [index |-> 0, cooldown |-> 0, distance |-> 0, id |-> 0])
    IN  IF best.index = 0 THEN <<>> ELSE <<best.index>>

\* CommandPost::receive_detections
receive_detections(cp, target_ids) == [cp EXCEPT !.detected_targets = target_ids]

\* CommandPost::calculate_target_priorities: the loop and the sort of
\* update_target_list, over the targets whose ID is in detected_targets
calculate_target_priorities(cp, tgts) ==
    LET detected == { cp.detected_targets[i] : i \in 1..Len(cp.detected_targets) }
    IN  update_target_list(cp, SelectSeq(tgts, LAMBDA t : t.id \in detected))

\* a faulty get_missile_assignment: the first entry, covered or not (C16
\* tells the two apart)
RECURSIVE FirstUncovered_or_covered(_)
FirstUncovered_or_covered(priorities) ==
    IF priorities = <<>> THEN "None"
    ELSE Head(priorities).target_id

\* CommandPost::get_missile_assignment: the target of the first priority
\* entry with assigned_missiles < target_endurance, or "None"
RECURSIVE FirstUncovered(_)
FirstUncovered(priorities) ==
    IF priorities = <<>> THEN "None"
    ELSE IF Head(priorities).assigned_missiles < Head(priorities).target_endurance
         THEN Head(priorities).target_id
         ELSE FirstUncovered(Tail(priorities))

get_missile_assignment(cp, launcher_id) == FirstUncovered(cp.target_priorities)

-----------------------------------------------------------------------------
(* SimulationEngine (simulation.rs) *)

RECURSIVE FlattenTargets(_, _)
FlattenTargets(groups, s) ==
    IF groups = <<>> THEN <<>>
    ELSE generate_targets(Head(groups), s) \o FlattenTargets(Tail(groups), s)

\* SimulationEngine::initialize_enemy_groups
initialize_enemy_groups(s) == FlattenTargets(s.groups, s)

\* SimulationEngine::initialize_sensors
initialize_sensors(s) == [i \in 1..Len(s.sensors) |-> Sensor_new(s.sensors[i])]

\* SimulationEngine::new followed by initialize(), for scenario s; tgts is
\* the target list and ss the sensor list
EngineInit(s, tgts, ss) ==
    /\ scenario = s
    /\ pc = "run"
    /\ current_time = 0
    /\ step_count = 0
    /\ command_post = CommandPost_new(s)
    /\ sensors = ss
    /\ launchers = [i \in 1..Len(s.launchers) |-> Launcher_new(s.launchers[i], s)]
    /\ targets = tgts
    /\ missiles = <<>>
    /\ target_clock = 0
    /\ sensor_clock = 0
    /\ returned = <<>>

\* the engine as new() and initialize() leave it: every target Inactive
Init ==
    \E s \in Scenarios :
        EngineInit(s, initialize_enemy_groups(s), initialize_sensors(s))

\* the engine entered with its targets' public `status` field already set to
\* Active by the caller (as main.rs does with `test_target.status =
\* AgentStatus::Active`).  No step of the engine itself makes a target
\* Active, so this is the entry from which detection, allocation and
\* launches happen at all.
Activated(tgts) == [i \in 1..Len(tgts) |-> [tgts[i] EXCEPT !.status = "Active"]]

InitActive ==
    \E s \in Scenarios :
        EngineInit(s, Activated(initialize_enemy_groups(s)), initialize_sensors(s))

\* the engine entered with pre-activated targets and with the pub `status`
\* of its first sensor set to Inactive by the caller
SwitchedOff(ss) == [ss EXCEPT ![1].status = "Inactive"]

InitSensorOff ==
    \E s \in TwoSensorScenarios :
        EngineInit(s, Activated(initialize_enemy_groups(s)),
                   SwitchedOff(initialize_sensors(s)))

\* the loop over self.targets in process_targets; the result carries the
\* static clock of Target::tick along
RECURSIVE TickTargets(_, _, _, _)
TickTargets(tgts, now, dt, clock) ==
    IF tgts = <<>> THEN [targets |-> <<>>, clock |-> clock]
    ELSE LET t == Head(tgts)
             ticks == Target_is_active(t) /\ now >= t.spawn_time
             clock1 == IF ticks THEN clock + dt ELSE clock
             t1 == IF ticks THEN Target_tick(t, dt, clock1) ELSE t
             rest == TickTargets(Tail(tgts), now, dt, clock1)
         IN  [targets |-> <<t1>> \o rest.targets, clock |-> rest.clock]

\* SimulationEngine::process_targets
process_targets ==
    /\ pc = "targets"
    /\ LET r == TickTargets(targets, current_time, scenario.dt_s, target_clock)
       IN  /\ targets' = r.targets
           /\ target_clock' = r.clock
    /\ pc' = "missiles"
    /\ UNCHANGED <<scenario, current_time, step_count, command_post, sensors,
                   launchers, missiles, sensor_clock, returned>>

\* the missiles after every Active one has been ticked
TickedMissiles(ms, dt) ==
    [i \in 1..Len(ms) |-> IF Missile_is_active(ms[i])
                          THEN Missile_tick(ms[i], dt) ELSE ms[i]]

\* SimulationEngine::process_missiles: tick, then retain the Active ones
process_missiles ==
    /\ pc = "missiles"
    /\ missiles' = SelectSeq(TickedMissiles(missiles, scenario.dt_s),
                             Missile_is_active)
    /\ pc' = "sensors"
    /\ UNCHANGED <<scenario, current_time, step_count, command_post, sensors,
                   launchers, targets, target_clock, sensor_clock, returned>>

\* the loop of process_sensors over ss: every sensor that is_active runs
\* update_detections and then tick(dt), which adds dt to the clock all
\* sensors share; one outcome per iteration order of the HashSets
RECURSIVE SensorPhaseOutcomes(_, _, _, _, _)
SensorPhaseOutcomes(ss, tgts, now, dt, clock) ==
    IF ss = <<>> THEN { [sensors |-> <<>>, clock |-> clock] }
    ELSE IF ~Sensor_is_active(Head(ss))
    THEN { [sensors |-> <<Head(ss)>> \o r.sensors, clock |-> r.clock] :
             r \in SensorPhaseOutcomes(Tail(ss), tgts, now, dt, clock) }
    ELSE UNION {
           { [sensors |-> <<Sensor_tick(updated, clock + dt)>> \o r.sensors,
              clock |-> r.clock] :
               r \in SensorPhaseOutcomes(Tail(ss), tgts, now, dt, clock + dt) } :
           updated \in { detect_targets(Head(ss), tgts, now, order) :
                           order \in IterationOrders(Head(ss).detected_targets) } }

\* SimulationEngine::process_sensors
process_sensors ==
    /\ pc = "sensors"
    /\ \E r \in SensorPhaseOutcomes(sensors, targets, current_time,
                                     scenario.dt_s, sensor_clock) :
          /\ sensors' = r.sensors
          /\ sensor_clock' = r.clock
    /\ pc' = "command_post"
    /\ UNCHANGED <<scenario, current_time, step_count, command_post, launchers,
                   targets, missiles, target_clock, returned>>

\* the IDs process_command_post collects from all sensors
FusedDetections ==
    UNION { sensors[i].detected_targets : i \in 1..Len(sensors) }

\* a faulty filter: every Active target, detected or not (C18 tells the two
\* apart)
DetectedActive_or_undetected(t) == Target_is_active(t)

DetectedActive(t) == Target_is_active(t) /\ t.id \in FusedDetections

\* SimulationEngine::process_command_post
process_command_post ==
    /\ pc = "command_post"
    /\ command_post' =
          IF command_post.status = "Active"
          THEN update_target_list(command_post, SelectSeq(targets, DetectedActive))
          ELSE command_post
    /\ pc' = "launchers"
    /\ UNCHANGED <<scenario, current_time, step_count, sensors, launchers,
                   targets, missiles, target_clock, sensor_clock, returned>>

\* a faulty loop: only a launcher with a full magazine fires, so a slot is
\* not tried again by a launcher that has fired before (C34 tells the two
\* apart)
RECURSIVE FireLaunchers_full_magazine_only(_, _, _, _)
FireLaunchers_full_magazine_only(ls, cp, s, ms) ==
    IF ls = <<>> THEN [launchers |-> <<>>, missiles |-> ms]
    ELSE LET l == Head(ls)
             assignment == get_missile_assignment(cp, l.id)
             fires == /\ Launcher_is_active(l) /\ assignment # "None"
                      /\ can_launch(l) /\ l.current_missiles = l.max_missiles
             fired == IF fires THEN fire_missile_at_target(l, assignment) ELSE l
             ms1 == IF fires
                    THEN Append(ms, Missile_new(
                                        MissileId(l.id, fired.missile_counter),
                                        l.position, assignment, s))
                    ELSE ms
             l1 == IF Launcher_is_active(l) THEN Launcher_tick(fired, s.dt_s)
                   ELSE l
             rest == FireLaunchers_full_magazine_only(Tail(ls), cp, s, ms1)
         IN  [launchers |-> <<l1>> \o rest.launchers, missiles |-> rest.missiles]

\* the loop over self.launchers in process_launchers: the launchers after
\* the loop and the missiles pushed by it
RECURSIVE FireLaunchers(_, _, _, _)
FireLaunchers(ls, cp, s, ms) ==
    IF ls = <<>> THEN [launchers |-> <<>>, missiles |-> ms]
    ELSE LET l == Head(ls)
             assignment == get_missile_assignment(cp, l.id)
             fires == Launcher_is_active(l) /\ assignment # "None" /\ can_launch(l)
             fired == IF fires THEN fire_missile_at_target(l, assignment) ELSE l
             ms1 == IF fires
                    THEN Append(ms, Missile_new(
                                        MissileId(l.id, fired.missile_counter),
                                        l.position, assignment, s))
                    ELSE ms
             l1 == IF Launcher_is_active(l) THEN Launcher_tick(fired, s.dt_s)
                   ELSE l
             rest == FireLaunchers(Tail(ls), cp, s, ms1)
         IN  [launchers |-> <<l1>> \o rest.launchers, missiles |-> rest.missiles]

\* a faulty process_launchers: it records every missile in flight under its
\* target while the launchers keep firing on the counts of the CommandPost
\* phase (C4 tells the two apart)
process_launchers_recording ==
    /\ pc = "launchers"
    /\ LET r == FireLaunchers(launchers, command_post, scenario, missiles)
           ids == { r.missiles[j].target_id : j \in 1..Len(r.missiles) }
           on(id) == SelectSeq(r.missiles, LAMBDA m : m.target_id = id)
       IN  /\ launchers' = r.launchers
           /\ missiles' = r.missiles
           /\ command_post' =
                  [command_post EXCEPT !.missile_assignments =
                      [id \in ids |-> [j \in 1..Len(on(id)) |-> on(id)[j].id]]]
    /\ pc' = "advance"
    /\ UNCHANGED <<scenario, current_time, step_count, sensors, targets,
                   target_clock, sensor_clock, returned>>

\* SimulationEngine::process_launchers
process_launchers ==
    /\ pc = "launchers"
    /\ LET r == FireLaunchers(launchers, command_post, scenario, missiles)
       IN  /\ launchers' = r.launchers
           /\ missiles' = r.missiles
    /\ pc' = "advance"
    /\ UNCHANGED <<scenario, current_time, step_count, command_post, sensors,
                   targets, target_clock, sensor_clock, returned>>

\* a faulty advance: the clock moves but the step is not counted (C9 tells
\* the two apart)
advance_time_only ==
    /\ pc = "advance"
    /\ current_time' = current_time + scenario.dt_s
    /\ pc' = "cap"
    /\ UNCHANGED <<scenario, step_count, command_post, sensors, launchers,
                   targets, missiles, target_clock, sensor_clock, returned>>

\* SimulationEngine::step, after the five phases
advance ==
    /\ pc = "advance"
    /\ current_time' = current_time + scenario.dt_s
    /\ step_count' = step_count + 1
    /\ pc' = "cap"
    /\ UNCHANGED <<scenario, command_post, sensors, launchers, targets,
                   missiles, target_clock, sensor_clock, returned>>

\* a faulty loop condition: `while true` (C10 tells the two apart)
run_loop_unconditional ==
    /\ pc = "run"
    /\ pc' = "targets"
    /\ UNCHANGED <<scenario, current_time, step_count, command_post, sensors,
                   launchers, targets, missiles, target_clock, sensor_clock, returned>>

\* SimulationEngine::run: the loop condition
run_loop ==
    /\ pc = "run"
    /\ pc' = IF current_time < scenario.t_max_s THEN "targets" ELSE "done"
    /\ UNCHANGED <<scenario, current_time, step_count, command_post, sensors,
                   launchers, targets, missiles, target_clock, sensor_clock, returned>>

\* SimulationEngine::run: the step-count guard at the end of the loop body
run_cap ==
    /\ pc = "cap"
    /\ pc' = IF step_count > MaxSteps THEN "done" ELSE "run"
    /\ UNCHANGED <<scenario, current_time, step_count, command_post, sensors,
                   launchers, targets, missiles, target_clock, sensor_clock, returned>>

Next ==
    \/ run_loop
    \/ process_targets
    \/ process_missiles
    \/ process_sensors
    \/ process_command_post
    \/ process_launchers
    \/ advance
    \/ run_cap

\* run() on the engine as constructed
Spec == Init /\ [][Next]_vars

\* run() on the engine as constructed, or with pre-activated targets, or
\* with those and a sensor switched off
SpecActive == (Init \/ InitActive \/ InitSensorOff) /\ [][Next]_vars

\* run() is a sequential loop: it keeps taking its next step
SpecFair ==
    (Init \/ InitActive \/ InitSensorOff) /\ [][Next]_vars /\ WF_vars(Next)

TypeOK ==
    /\ pc \in {"run", "targets", "missiles", "sensors", "command_post",
               "launchers", "advance", "cap", "done"}
    /\ current_time \in Nat
    /\ step_count \in Nat

-----------------------------------------------------------------------------
(* Properties of the engine *)

TargetIndex(id) == CHOOSE i \in 1..Len(targets) : targets[i].id = id
TargetById(id) == targets[TargetIndex(id)]

\* pc values between the end of the Targets phase and the end of the tick
AfterTargetsPhase == {"missiles", "sensors", "command_post", "launchers", "advance"}
\* pc values between the end of the CommandPost phase and the next one
AfterCommandPostPhase == {"launchers", "advance", "cap", "run", "targets",
                          "missiles", "sensors", "done"}

\* a target that has not spawned: removal for leaving the region also gives
\* Inactive, but leaves the position out of bounds
NotYetSpawned(t) == t.status = "Inactive" /\ is_in_simulation_bounds(t.position)

\* missiles pushed by the last Launchers phase and not yet ticked
NewMissiles == { j \in 1..Len(missiles) : missiles[j].flight_time = 0 }
LiveMissilesOn(id) ==
    { j \in 1..Len(missiles) :
        missiles[j].status = "Active" /\ missiles[j].target_id = id }

\* C1: once the Targets phase of a tick with current_time >= spawn_time has
\* run, the target is no longer waiting to spawn (it has become Active in
\* that phase or an earlier one).
C1_SpawnedAfterTargetsPhase ==
    pc \in AfterTargetsPhase =>
        \A i \in 1..Len(targets) :
            current_time >= targets[i].spawn_time => ~NotYetSpawned(targets[i])

C4_AssignmentsWithinEndurance ==
    pc \in AfterCommandPostPhase =>
        \A i \in 1..Len(targets) :
            AssignedCount(command_post.missile_assignments, targets[i].id)
                <= targets[i].endurance

\* C4 witness: the CommandPost phase has just listed a target against which
\* a missile is already in flight.
C4_Witness ==
    /\ pc = "launchers"
    /\ \E k \in 1..Len(command_post.target_priorities) :
          LiveMissilesOn(command_post.target_priorities[k].target_id) # {}

HitsOn(id) ==
    { j \in 1..Len(missiles) :
        /\ missiles[j].status = "Active"
        /\ missiles[j].target_id = id
        /\ Missile_tick(missiles[j], scenario.dt_s).end_reason = "Hit" }

InsideStep == {"targets", "missiles", "sensors", "command_post", "launchers",
               "advance"}

\* one step of run() respects the phase order, each phase touching only its
\* own part of the engine, and the clock moves only in the advance
PhaseOrderStep ==
    /\ pc' = "targets" => pc = "run"
    /\ pc = "targets" =>
          /\ pc' = "missiles"
          /\ UNCHANGED <<missiles, sensors, command_post, launchers>>
    /\ pc = "missiles" =>
          /\ pc' = "sensors"
          /\ UNCHANGED <<targets, sensors, command_post, launchers>>
    /\ pc = "sensors" =>
          /\ pc' = "command_post"
          /\ UNCHANGED <<targets, missiles, command_post, launchers>>
    /\ pc = "command_post" =>
          /\ pc' = "launchers"
          /\ UNCHANGED <<targets, missiles, sensors, launchers>>
    /\ pc = "launchers" =>
          /\ pc' = "advance"
          /\ UNCHANGED <<targets, sensors, command_post>>
    /\ pc = "advance" =>
          /\ pc' \notin InsideStep
          /\ current_time' = current_time + scenario.dt_s
          /\ step_count' = step_count + 1
          /\ UNCHANGED <<targets, missiles, sensors, command_post, launchers>>
    /\ pc # "advance" => UNCHANGED <<current_time, step_count>>

\* C9: every step runs Targets, Missiles, Sensors, CommandPost, Launchers in
\* this order, one after the other, and only then adds dt to current_time
\* and 1 to step_count; so current_time = step_count * dt throughout.
C9_PhaseOrderAndClock ==
    /\ [](current_time = step_count * scenario.dt_s)
    /\ [][PhaseOrderStep]_vars

\* C9 witness: the third step has reached its advance with a missile in flight
C9_Witness == pc = "advance" /\ step_count = 2 /\ missiles # <<>>

\* C10: run() reaches its end; it is inside step() only while
\* current_time < t_max, it never takes more than MaxSteps + 1 steps, and at
\* its end current_time >= t_max or step_count > MaxSteps.
C10_RunTerminates ==
    /\ <>(pc = "done")
    /\ [](pc \in InsideStep => current_time < scenario.t_max_s)
    /\ [](step_count <= MaxSteps + 1)
    /\ [](pc = "done" =>
            current_time >= scenario.t_max_s \/ step_count > MaxSteps)

\* C10 witness: run() has ended on the step cap, before t_max
C10_Witness ==
    /\ pc = "done"
    /\ step_count > MaxSteps
    /\ current_time < scenario.t_max_s


-----------------------------------------------------------------------------
(* A launcher driven through its public calls *)

\* fires a driven launcher may make
MaxFires == 3

\* cooldown_s of the driven launcher
CooldownValues == {0, 3}

LauncherScenarios ==
    { ScenarioConfig(1, MaxTime, 1, mag, cd, cooled, <<>>, 50) :
        mag \in 0..MaxMagazine, cd \in CooldownValues, cooled \in BOOLEAN }

\* the calls on a launcher; pc names the call that has returned last
LauncherCalls ==
    {"initialize", "fire_missile", "fire_missile_at_target", "tick", "reload",
     "reload_full", "status"}
FireCalls == {"fire_missile", "fire_missile_at_target"}

\* Launcher::new and initialize, as SimulationEngine::initialize_launchers
\* runs them; `missiles` holds what the last fire call returned
LauncherInit ==
    /\ scenario \in LauncherScenarios
    /\ pc = "initialize"
    /\ launchers = <<Launcher_new(scenario.launchers[1], scenario)>>
    /\ missiles = <<>>
    /\ command_post = CommandPost_new(scenario)
    /\ sensors = <<>>
    /\ targets = <<>>
    /\ current_time = 0
    /\ step_count = 0
    /\ target_clock = 0
    /\ sensor_clock = 0
    /\ returned = <<>>

LauncherFrame ==
    UNCHANGED <<scenario, current_time, step_count, command_post, sensors,
                targets, target_clock, sensor_clock, returned>>

Launcher_call_initialize ==
    /\ pc \in LauncherCalls
    /\ launchers' = <<Launcher_initialize(launchers[1], scenario.launchers[1],
                                          scenario)>>
    /\ missiles' = <<>>
    /\ pc' = "initialize"
    /\ LauncherFrame

Launcher_call_fire_missile ==
    /\ pc \in LauncherCalls
    /\ launchers[1].missile_counter < MaxFires
    /\ \E target_id \in { TargetIdOrder[1], TargetIdOrder[2] },
          now \in {5} :
          LET r == fire_missile(launchers[1], target_id, now)
          IN  /\ launchers' = <<r.launcher>>
              /\ missiles' = r.missile
    /\ pc' = "fire_missile"
    /\ LauncherFrame

Launcher_call_fire_missile_at_target ==
    /\ pc \in LauncherCalls
    /\ launchers[1].missile_counter < MaxFires
    /\ \E target_id \in { TargetIdOrder[1], TargetIdOrder[2] } :
          LET r == fire_at_target(launchers[1], target_id)
          IN  /\ launchers' = <<r.launcher>>
              /\ missiles' = r.missile
    /\ pc' = "fire_missile_at_target"
    /\ LauncherFrame

Launcher_call_tick ==
    /\ pc \in LauncherCalls
    /\ \E dt \in DtValues : launchers' = <<Launcher_tick(launchers[1], dt)>>
    /\ missiles' = <<>>
    /\ pc' = "tick"
    /\ LauncherFrame

Launcher_call_reload ==
    /\ pc \in LauncherCalls
    /\ \E count \in 0..(MaxMagazine + 1) :
          launchers' = <<reload(launchers[1], count)>>
    /\ missiles' = <<>>
    /\ pc' = "reload"
    /\ LauncherFrame

Launcher_call_reload_full ==
    /\ pc \in LauncherCalls
    /\ launchers' = <<reload_full(launchers[1])>>
    /\ missiles' = <<>>
    /\ pc' = "reload_full"
    /\ LauncherFrame

\* the caller writes the pub field `status`
Launcher_set_status ==
    /\ pc \in LauncherCalls
    /\ launchers' = <<[launchers[1] EXCEPT !.status = "Destroyed"]>>
    /\ missiles' = <<>>
    /\ pc' = "status"
    /\ LauncherFrame

LauncherNext ==
    \/ Launcher_call_initialize
    \/ Launcher_call_fire_missile
    \/ Launcher_call_fire_missile_at_target
    \/ Launcher_call_tick
    \/ Launcher_call_reload
    \/ Launcher_call_reload_full
    \/ Launcher_set_status

SpecLauncher == LauncherInit /\ [][LauncherNext]_vars

-----------------------------------------------------------------------------
(* Properties of the launcher *)

\* C12: after any sequence of initialize, fire, tick, reload and reload_full
\* calls the magazine is within 0..max_missiles and the remaining cooldown
\* within 0..cooldown_time
C12_MagazineAndCooldownBounded ==
    \A i \in 1..Len(launchers) :
        /\ 0 <= launchers[i].current_missiles
        /\ launchers[i].current_missiles <= launchers[i].max_missiles
        /\ 0 <= launchers[i].cooldown_remaining
        /\ launchers[i].cooldown_remaining <= launchers[i].cooldown_time

\* a launcher that has fired, is cooling down and has been reloaded to the
\* full
C12_Witness ==
    /\ pc = "reload"
    /\ launchers[1].missile_counter > 0
    /\ launchers[1].max_missiles > 0
    /\ launchers[1].current_missiles = launchers[1].max_missiles
    /\ launchers[1].cooldown_remaining > 0

\* Ready as the specification defines it
Ready(l) ==
    l.status = "Active" /\ l.current_missiles > 0 /\ l.cooldown_remaining = 0
NotReady(l) ==
    l.status # "Active" \/ l.current_missiles = 0 \/ l.cooldown_remaining > 0

\* C13: a fire call on a launcher that is not Ready returns no missile and
\* leaves the launcher (magazine, cooldown, counter, history) as it was
C13_RefusedFireChangesNothing ==
    [][(pc' \in FireCalls /\ NotReady(launchers[1]))
          => (missiles' = <<>> /\ launchers' = launchers)]_vars

\* a fire call refused to a launcher that is Active and loaded but cooling
\* down
C13_Witness ==
    /\ pc \in FireCalls
    /\ missiles = <<>>
    /\ launchers[1].status = "Active"
    /\ launchers[1].current_missiles > 0
    /\ launchers[1].cooldown_remaining > 0
    /\ launchers[1].missile_counter > 0

\* C14: a fire call on a Ready launcher takes one missile from the magazine,
\* starts the cooldown, adds one to the counter, appends one launch record
\* and returns one Active missile in Boost at the launcher's position, bound
\* to the requested target
C14_FireByReadyLauncher ==
    [][(pc' \in FireCalls /\ Ready(launchers[1])) =>
          LET l == launchers[1]
              after == launchers'[1]
          IN  /\ after.current_missiles = l.current_missiles - 1
              /\ after.cooldown_remaining = l.cooldown_time
              /\ after.missile_counter = l.missile_counter + 1
              /\ Len(after.launch_history) = Len(l.launch_history) + 1
              /\ SubSeq(after.launch_history, 1, Len(l.launch_history))
                     = l.launch_history
              /\ Len(missiles') = 1
              /\ missiles'[1].status = "Active"
              /\ missiles'[1].guidance_phase = "Boost"
              /\ missiles'[1].position = l.position
              /\ missiles'[1].target_id
                     = after.launch_history[Len(after.launch_history)].target_id
              /\ after.launch_history[Len(after.launch_history)].missile_id
                     = missiles'[1].id]_vars

\* a fire call has returned a missile
C14_Witness ==
    /\ pc \in FireCalls
    /\ Len(missiles) = 1
    /\ launchers[1].cooldown_remaining = launchers[1].cooldown_time
    /\ Len(launchers[1].launch_history) > 0


-----------------------------------------------------------------------------
(* A command post asked to rebuild its priority list *)

\* the targets handed to the command post: G001_T001..G003_T001 on the
\* x axis, heading for the command post at the origin
PriorityTargetShapes ==
    { <<300, 100>>, <<500, 200>>, <<500, 100>>, <<300, 0>> }

PriorityTarget(k, shape, st) ==
    [Target_new(TargetIdOrder[k], Position3D(shape[1], 0, 0), Position3D(0, 0, 0), "G", 100, 1, 0, shape[2]) EXCEPT !.status = st]

PriorityPopulations ==
    { <<PriorityTarget(1, a, x), PriorityTarget(2, b, y), PriorityTarget(3, c, z)>> :
        a \in PriorityTargetShapes, b \in PriorityTargetShapes,
        c \in PriorityTargetShapes,
        x \in {"Active", "Inactive"}, y \in {"Active", "Destroyed"},
        z \in {"Active", "Reached"} }

\* the orders in which a caller may supply n targets
Orders(n) ==
    { f \in [1..n -> 1..n] : \A i, j \in 1..n : i # j => f[i] # f[j] }
Supplied(tgts, f) == [i \in 1..Len(tgts) |-> tgts[f[i]]]

PriorityCalls == {"update_target_list", "calculate_target_priorities"}

PriorityInit ==
    /\ scenario \in { ScenarioConfig(1, MaxTime, 1, 1, 3, TRUE, <<>>, 50) }
    /\ pc = "new"
    /\ command_post = CommandPost_new(scenario)
    /\ targets \in PriorityPopulations
    /\ launchers = <<>>
    /\ missiles = <<>>
    /\ sensors = <<>>
    /\ current_time = 0
    /\ step_count = 0
    /\ target_clock = 0
    /\ sensor_clock = 0
    /\ returned = <<>>

PriorityFrame ==
    UNCHANGED <<scenario, current_time, step_count, sensors, launchers,
                targets, missiles, target_clock, sensor_clock, returned>>

CommandPost_call_receive_detections ==
    /\ \E ids \in SUBSET { TargetIdOrder[i] : i \in 1..Len(TargetIdOrder) } :
          command_post' =
              receive_detections(command_post,
                                 SelectSeq(TargetIdOrder, LAMBDA id : id \in ids))
    /\ pc' = "receive_detections"
    /\ PriorityFrame

CommandPost_call_update_target_list ==
    /\ \E f \in Orders(Len(targets)) :
          command_post' = update_target_list(command_post, Supplied(targets, f))
    /\ pc' = "update_target_list"
    /\ PriorityFrame

CommandPost_call_calculate_target_priorities ==
    /\ \E f \in Orders(Len(targets)) :
          command_post' =
              calculate_target_priorities(command_post, Supplied(targets, f))
    /\ pc' = "calculate_target_priorities"
    /\ PriorityFrame

PriorityNext ==
    \/ CommandPost_call_receive_detections
    \/ CommandPost_call_update_target_list
    \/ CommandPost_call_calculate_target_priorities

SpecPriorities == PriorityInit /\ [][PriorityNext]_vars

\* a comes strictly before b in (tgo, XY distance, target_id)
KeyBefore(a, b) ==
    \/ TgoCmp(a.tgo, b.tgo) < 0
    \/ TgoCmp(a.tgo, b.tgo) = 0 /\ a.distance_xy < b.distance_xy
    \/ /\ TgoCmp(a.tgo, b.tgo) = 0
       /\ a.distance_xy = b.distance_xy
       /\ IdLess(a.target_id, b.target_id)

\* the list the call named by pc builds from the targets supplied in order f
Rebuilt(f) ==
    IF pc = "update_target_list"
    THEN update_target_list(command_post, Supplied(targets, f)).target_priorities
    ELSE calculate_target_priorities(command_post,
                                     Supplied(targets, f)).target_priorities

\* C15: after a rebuild the priority list ascends in tgo, then XY distance,
\* then target_id, and is the same list for every order of the supplied
\* targets
C15_PrioritiesSorted ==
    pc \in PriorityCalls =>
        LET p == command_post.target_priorities
        IN  /\ \A i, j \in 1..Len(p) : i < j => KeyBefore(p[i], p[j])
            /\ \A f \in Orders(Len(targets)) : Rebuilt(f) = p

\* a rebuilt list of three entries, two of them equal in tgo and distance
C15_Witness ==
    /\ pc \in PriorityCalls
    /\ Len(command_post.target_priorities) = 3
    /\ \E i \in 1..2 :
          LET p == command_post.target_priorities
          IN  /\ TgoCmp(p[i].tgo, p[i + 1].tgo) = 0
              /\ p[i].distance_xy = p[i + 1].distance_xy


-----------------------------------------------------------------------------
(* Properties of the engine: who receives the first missile of a tick *)

\* the detected Active targets whose assigned missiles are fewer than their
\* endurance
Uncovered ==
    { i \in 1..Len(targets) :
        /\ DetectedActive(targets[i])
        /\ AssignedCount(command_post.missile_assignments, targets[i].id)
              < targets[i].endurance }

\* target a comes before target b: smaller tgo, then smaller XY distance to
\* the command post, then smaller ID
TargetBefore(a, b) ==
    LET byTgo == TgoCmp(calculate_time_to_go(a), calculate_time_to_go(b))
        da == DistXY(a.position, command_post.position)
        db == DistXY(b.position, command_post.position)
    IN  \/ byTgo < 0
        \/ byTgo = 0 /\ da < db
        \/ byTgo = 0 /\ da = db /\ IdLess(a.id, b.id)

\* C16: the first missile launched in a tick is bound to the first target,
\* in (tgo, XY distance, ID) order, among the detected Active targets with
\* assigned_missiles < endurance; when there is no such target no launcher
\* fires
C16_FirstMissileToFirstUncovered ==
    [][(pc = "launchers" /\ pc' = "advance") =>
          /\ SubSeq(missiles', 1, Len(missiles)) = missiles
          /\ (Uncovered = {} => missiles' = missiles)
          /\ (Len(missiles') > Len(missiles) =>
                 \E i \in Uncovered :
                    /\ missiles'[Len(missiles) + 1].target_id = targets[i].id
                    /\ \A j \in Uncovered \ {i} :
                          TargetBefore(targets[i], targets[j]))]_vars

\* the first missile of the tick has gone to G002_T001, nearer than
\* G001_T001 at an equal tgo
C16_Witness ==
    /\ pc = "advance"
    /\ Uncovered = 1..2
    /\ TgoCmp(calculate_time_to_go(targets[1]), calculate_time_to_go(targets[2])) = 0
    /\ DistXY(targets[2].position, command_post.position)
          < DistXY(targets[1].position, command_post.position)
    /\ NewMissiles # {}
    /\ \A j \in NewMissiles : missiles[j].target_id = targets[2].id


-----------------------------------------------------------------------------
(* A command post asked for the best launcher *)

\* String::cmp on the launcher IDs
LauncherIdLess(a, b) ==
    (CHOOSE i \in 1..Len(LauncherIds) : LauncherIds[i] = a)
        < (CHOOSE i \in 1..Len(LauncherIds) : LauncherIds[i] = b)

\* a launcher on the x axis, as initialize and later ticks and fires may
\* have left it
SelectLauncher(id, x, loaded, cooldown, st) ==
    [Launcher_new([id |-> id, x |-> x, y |-> 0, z |-> 0, missiles_loaded |-> 1, cooldown_s |-> 3], [launcher_initially_cooled |-> TRUE]) EXCEPT !.current_missiles = loaded, !.cooldown_remaining = cooldown, !.status = st]

SelectLauncherStates ==
    { <<x, loaded, cooldown, st>> :
        x \in {0, 400}, loaded \in 0..1, cooldown \in {0, 2},
        st \in {"Active", "Inactive"} }

SelectPopulations ==
    { << SelectLauncher(LauncherIds[ids[1]], a[1], a[2], a[3], a[4]),
         SelectLauncher(LauncherIds[ids[2]], b[1], b[2], b[3], b[4]) >> :
        ids \in { <<1, 2>>, <<2, 1>> },
        a \in SelectLauncherStates, b \in SelectLauncherStates }

SelectInit ==
    /\ scenario \in { ScenarioConfig(1, MaxTime, 2, 1, 3, TRUE, <<>>, 50) }
    /\ pc = "new"
    /\ command_post = CommandPost_new(scenario)
    /\ launchers \in SelectPopulations
    /\ targets \in { << PriorityTarget(1, <<x, 100>>, "Active") >> : x \in {100, 300} }
    /\ missiles = <<>>
    /\ sensors = <<>>
    /\ current_time = 0
    /\ step_count = 0
    /\ target_clock = 0
    /\ sensor_clock = 0
    /\ returned = <<>>

CommandPost_call_select_best_launcher ==
    /\ pc = "new"
    /\ returned' = select_best_launcher(command_post, launchers,
                                        targets[1].position)
    /\ pc' = "select_best_launcher"
    /\ UNCHANGED <<scenario, current_time, step_count, command_post, sensors,
                   launchers, targets, missiles, target_clock, sensor_clock>>

SelectNext == CommandPost_call_select_best_launcher

SpecSelect == SelectInit /\ [][SelectNext]_vars

\* launcher a comes before launcher b for the target at position p: smaller
\* cooldown_remaining, then smaller XY distance to p, then smaller ID
LauncherBefore(a, b, p) ==
    \/ a.cooldown_remaining < b.cooldown_remaining
    \/ /\ a.cooldown_remaining = b.cooldown_remaining
       /\ DistXY(a.position, p) < DistXY(b.position, p)
    \/ /\ a.cooldown_remaining = b.cooldown_remaining
       /\ DistXY(a.position, p) = DistXY(b.position, p)
       /\ LauncherIdLess(a.id, b.id)

ReadyLaunchers == { i \in 1..Len(launchers) : Ready(launchers[i]) }

\* C17: select_best_launcher returns the Ready launcher that is first in
\* (cooldown_remaining, XY distance from the launcher to the target,
\* launcher_id), and none iff no launcher is Ready
C17_SelectsNearestReadyLauncher ==
    pc = "select_best_launcher" =>
        /\ (returned = <<>>) <=> (ReadyLaunchers = {})
        /\ returned # <<>> =>
              /\ returned[1] \in ReadyLaunchers
              /\ \A j \in ReadyLaunchers \ {returned[1]} :
                    LauncherBefore(launchers[returned[1]], launchers[j],
                                   targets[1].position)


-----------------------------------------------------------------------------
(* Properties of the engine: the fused detections *)

\* the IDs of the targets that are Active and in the detected set of at
\* least one Active sensor
ActiveAndDetected ==
    { targets[i].id : i \in { j \in 1..Len(targets) :
        /\ Target_is_active(targets[j])
        /\ \E k \in 1..Len(sensors) :
              /\ Sensor_is_active(sensors[k])
              /\ targets[j].id \in sensors[k].detected_targets } }

\* C18: after the CommandPost phase the priority list has exactly one entry
\* for each target that is Active and detected by at least one Active
\* sensor, and no other entry
C18_OneEntryPerDetectedTarget ==
    pc = "launchers" =>
        LET p == command_post.target_priorities
        IN  /\ { p[i].target_id : i \in 1..Len(p) } = ActiveAndDetected
            /\ \A i, j \in 1..Len(p) :
                  p[i].target_id = p[j].target_id => i = j

\* two sensors, one target detected by both and one by the wide sensor
\* alone: two entries
C18_Witness ==
    /\ pc = "launchers"
    /\ Len(sensors) = 2
    /\ sensors[1].detected_targets \cap sensors[2].detected_targets # {}
    /\ sensors[1].detected_targets # sensors[2].detected_targets
    /\ Len(command_post.target_priorities) = 2


-----------------------------------------------------------------------------
(* A sensor asked to update its detections *)

\* update_detections calls on the driven sensor
MaxUpdates == 3

\* detection_range of the driven sensor, at the origin
SensorRange == 500

\* where a target may be at a call: 300 m away, on the boundary (300-400-500)
\* and 1 m above the boundary
SensorTargetPlaces == { <<300, 0>>, <<300, 400>>, <<300, 401>> }
AgentStatuses == {"Active", "Inactive", "Destroyed", "Reached"}

SensorTarget(k, place, st) ==
    [Target_new(TargetIdOrder[k], Position3D(place[1], 0, place[2]), Origin, "G", 100, 1, 0, 100) EXCEPT !.status = st]

\* the slices handed to update_detections: the first target anywhere and
\* in any status, the second Active or Destroyed, in range or just out of it
SensorTargetLists ==
    { << SensorTarget(1, a, x), SensorTarget(2, b, y) >> :
        a \in SensorTargetPlaces, b \in { <<300, 0>>, <<300, 401>> },
        x \in AgentStatuses, y \in {"Active", "Destroyed"} }

\* Sensor::new and initialize; `targets` holds the slice of the last call
SensorInit ==
    /\ scenario \in { ScenarioConfig(1, MaxTime, 1, 1, 3, TRUE, <<>>, 50) }
    /\ pc = "initialize"
    /\ sensors = << Sensor_new([id |-> "S001", x |-> 0, y |-> 0, z |-> 0,
                                range_m |-> SensorRange]) >>
    /\ targets = <<>>
    /\ command_post = CommandPost_new(scenario)
    /\ launchers = <<>>
    /\ missiles = <<>>
    /\ current_time = 0
    /\ step_count = 0
    /\ target_clock = 0
    /\ sensor_clock = 0
    /\ returned = <<>>

\* update_detections(tgts, current_time), one second after the last call
Sensor_call_update_detections ==
    /\ step_count < MaxUpdates
    /\ \E tgts \in SensorTargetLists,
          order \in IterationOrders(sensors[1].detected_targets) :
          /\ sensors' = << detect_targets(sensors[1], tgts, current_time, order) >>
          /\ targets' = tgts
    /\ pc' = "update_detections"
    /\ current_time' = current_time + 1
    /\ step_count' = step_count + 1
    /\ UNCHANGED <<scenario, command_post, launchers, missiles, target_clock,
                   sensor_clock, returned>>

SensorNext == Sensor_call_update_detections

SpecSensor == SensorInit /\ [][SensorNext]_vars

-----------------------------------------------------------------------------
(* Properties of the sensor *)

\* the IDs of the targets of a slice that are Active and no farther from
\* the sensor than its detection_range
ActiveInRange(sensor, tgts) ==
    { tgts[i].id : i \in { j \in 1..Len(tgts) :
        /\ tgts[j].status = "Active"
        /\ Dist3DSq(sensor.position, tgts[j].position)
              <= sensor.detection_range * sensor.detection_range } }

\* C19: after an update_detections call the detected set is exactly the set
\* of the IDs of the targets that were Active and within detection_range,
\* boundary included, in that call; no target that is Inactive, Destroyed or
\* Reached is in it
C19_DetectedAreActiveInRange ==
    pc = "update_detections" =>
        /\ sensors[1].detected_targets = ActiveInRange(sensors[1], targets)
        /\ \A i \in 1..Len(targets) :
              targets[i].status # "Active"
                  => targets[i].id \notin sensors[1].detected_targets

\* one target detected on the boundary, the other in range but Destroyed
C19_Witness ==
    /\ pc = "update_detections"
    /\ targets[1].status = "Active"
    /\ Dist3DSq(sensors[1].position, targets[1].position) = SensorRange * SensorRange
    /\ targets[1].id \in sensors[1].detected_targets
    /\ targets[2].status = "Destroyed"
    /\ Dist3DSq(sensors[1].position, targets[2].position) < SensorRange * SensorRange
    /\ targets[2].id \notin sensors[1].detected_targets

\* the events of kind `kind` about target `id` in a sequence of events
EventsOf(events, id, kind) ==
    SelectSeq(events, LAMBDA e : e.target_id = id /\ e.event_type = kind)

\* the FirstDetected and Lost events about target `id`, in recorded order
Appearances(events, id) ==
    SelectSeq(events, LAMBDA e : e.target_id = id /\ e.event_type # "Tracking")

Count(b) == IF b THEN 1 ELSE 0

\* what one update_detections call records
RecordsOneEventEach ==
    LET old == sensors[1]
        new == sensors'[1]
        added == SubSeq(new.detection_history, Len(old.detection_history) + 1,
                        Len(new.detection_history))
        seen == ActiveInRange(old, targets')
    IN  /\ SubSeq(new.detection_history, 1, Len(old.detection_history))
              = old.detection_history
        /\ \A k \in 1..Len(TargetIdOrder) :
              LET id == TargetIdOrder[k]
              IN  /\ Len(EventsOf(added, id, "FirstDetected"))
                        = Count(id \in seen /\ id \notin old.detected_targets)
                  /\ Len(EventsOf(added, id, "Tracking"))
                        = Count(id \in seen /\ id \in old.detected_targets)
                  /\ Len(EventsOf(added, id, "Lost"))
                        = Count(id \in old.detected_targets
                                  /\ id \notin new.detected_targets)

\* FirstDetected and Lost alternate for every target, FirstDetected first
Alternates ==
    \A k \in 1..Len(TargetIdOrder) :
        LET a == Appearances(sensors[1].detection_history, TargetIdOrder[k])
        IN  \A n \in 1..Len(a) :
               a[n].event_type = IF n % 2 = 1 THEN "FirstDetected" ELSE "Lost"

\* C20: an update_detections call records one event per Active in-range
\* target, FirstDetected if its ID was not in the detected set before the
\* call and Tracking otherwise, and one Lost event per ID that leaves the
\* set; so the FirstDetected and Lost events of a target alternate,
\* beginning with FirstDetected
C20_EventsPerUpdate ==
    /\ [][pc' = "update_detections" => RecordsOneEventEach]_vars
    /\ [](pc = "update_detections" => Alternates)

\* a target first detected, lost and detected again, the other tracked
C20_Witness ==
    /\ pc = "update_detections"
    /\ Len(Appearances(sensors[1].detection_history, TargetIdOrder[1])) = 3
    /\ Len(EventsOf(sensors[1].detection_history, TargetIdOrder[2], "Tracking")) > 0

-----------------------------------------------------------------------------
(* Missile alone: one missile made by Missile::new and IAgent::initialize,
   then any sequence of calls of its public per-tick functions. missiles
   holds the missile, pc names the last call and step_count counts the
   calls. *)

\* the number of calls made on the missile
MaxMissileCalls == 5

\* missile_defaults.kinematics.initial_speed_mps: at rest, or climbing
MissileSpeeds == {0, 10}
\* policy.missile_guidance.endgame_miss_increase_ticks (u32, zero included)
MissTicks == {0, 1, 2}
\* launch positions: the origin, and a point outside the x range
LaunchPositions == { Position3D(0, 0, 0), Position3D(RegionMax + 1, 0, 0) }
\* altitudes of the target positions a caller passes, on the missile's vertical
TargetAltitudes == {0, 20, 30, 40}
\* tick sizes the missile is updated with
MissileDts == {1, 3}

MissileScenarios ==
    { [ScenarioConfig(1, MaxTime, 1, 1, 3, TRUE, <<>>, 20) EXCEPT
           !.kinematics = [initial_speed_mps |-> v, max_speed_mps |-> 10,
                           max_accel_mps2 |-> 0, intercept_radius_m |-> 20],
           !.guidance = [endgame_factor |-> 2,
                         endgame_miss_increase_ticks |-> k]] :
        v \in MissileSpeeds, k \in MissTicks }

MissileInit ==
    /\ scenario \in MissileScenarios
    /\ pc = "initialize"
    /\ missiles \in { << Missile_new("M001", p, TargetIdOrder[1], scenario) >> :
                        p \in LaunchPositions }
    /\ targets = <<>>
    /\ sensors = <<>>
    /\ launchers = <<>>
    /\ command_post = CommandPost_new(scenario)
    /\ current_time = 0
    /\ step_count = 0
    /\ target_clock = 0
    /\ sensor_clock = 0
    /\ returned = <<>>

MissileFrame ==
    UNCHANGED <<scenario, current_time, command_post, sensors, launchers,
                targets, target_clock, sensor_clock, returned>>

\* IMovable::move_agent for Missile
Missile_move_agent(m, dt) ==
    IF m.status = "Active" THEN update_kinematics(m, dt, TickTargetPosition)
    ELSE m

\* IMissile::guidance
Missile_guidance(m, target_position, dt) ==
    update_kinematics(m, dt, target_position)

\* a target position on the missile's vertical
Above(m, altitude) == Position3D(m.position.x, m.position.y, altitude)

\* missile.tick(dt); its placeholder target is the origin, so the call is made
\* for a missile on the origin's vertical
Missile_call_tick(dt) ==
    /\ step_count < MaxMissileCalls
    /\ missiles[1].position.x = 0
    /\ missiles' = << Missile_tick(missiles[1], dt) >>
    /\ pc' = "tick"
    /\ step_count' = step_count + 1
    /\ MissileFrame

\* missile.move_agent(dt)
Missile_call_move_agent(dt) ==
    /\ step_count < MaxMissileCalls
    /\ missiles[1].position.x = 0
    /\ missiles' = << Missile_move_agent(missiles[1], dt) >>
    /\ pc' = "move_agent"
    /\ step_count' = step_count + 1
    /\ MissileFrame

\* missile.guidance(target_position, dt)
Missile_call_guidance(altitude, dt) ==
    /\ step_count < MaxMissileCalls
    /\ missiles' = << Missile_guidance(missiles[1],
                                       Above(missiles[1], altitude), dt) >>
    /\ pc' = "guidance"
    /\ step_count' = step_count + 1
    /\ MissileFrame

\* missile.perform_checks(target_position)
Missile_call_perform_checks(altitude) ==
    /\ step_count < MaxMissileCalls
    /\ missiles' = << perform_checks(missiles[1], Above(missiles[1], altitude)) >>
    /\ pc' = "perform_checks"
    /\ step_count' = step_count + 1
    /\ MissileFrame

MissileNext ==
    \/ \E dt \in MissileDts : Missile_call_tick(dt)
    \/ \E dt \in MissileDts : Missile_call_move_agent(dt)
    \/ \E altitude \in TargetAltitudes, dt \in MissileDts :
           Missile_call_guidance(altitude, dt)
    \/ \E altitude \in TargetAltitudes : Missile_call_perform_checks(altitude)

SpecMissile == MissileInit /\ [][MissileNext]_vars

-----------------------------------------------------------------------------
(* Missile termination (C21..C25) *)

\* a step that runs the checks on an Active missile: a tick, or a
\* perform_checks call
ChecksRun ==
    /\ missiles[1].status = "Active"
    /\ pc' \in {"tick", "perform_checks"}

\* the self-destruct predicate of track_miss_distance, on the missile as the
\* update leaves it
SelfDestructFires(m) ==
    /\ m.guidance_phase = "Endgame"
    /\ Len(m.miss_distance_history) >= 2
    /\ m.miss_increase_count >= m.endgame_miss_increase_ticks

\* the miss distance pushed by the update
LastMiss(m) == m.miss_distance_history[Len(m.miss_distance_history)]

\* the reason of the first check that fires, in the order out-of-bounds,
\* self-destruct, collision
FirstFiring(m) ==
    IF ~is_in_simulation_bounds(m.position) THEN "OutOfBounds"
    ELSE IF SelfDestructFires(m) THEN "SelfDestruct"
    ELSE IF LastMiss(m) <= m.intercept_radius THEN "Hit"
    ELSE "None"

\* C21: end_reason is assigned once, in the update in which status leaves
\* Active, and is the reason of the first check that fires in the order
\* out-of-bounds, self-destruct, collision; no later check of the update and
\* no later update changes it, and status is not Active exactly when
\* end_reason is set.
C21_EndReasonSetOnceByFirstCheck ==
    [][/\ ChecksRun =>
            /\ missiles'[1].end_reason = FirstFiring(missiles'[1])
            /\ missiles'[1].status = "Active"
                   <=> missiles'[1].end_reason = "None"
       /\ missiles[1].status # "Active" /\ pc' # "perform_checks" =>
            missiles'[1].end_reason = missiles[1].end_reason]_vars

\* the last two miss distances show a strict increase
MissIncreased(m) ==
    LET h == m.miss_distance_history
    IN  Len(h) >= 2 /\ h[Len(h)] > h[Len(h) - 1]

\* C22: in every update of an Active in-bounds missile that ends in Endgame,
\* miss_increase_count becomes the old count plus one if the miss distance is
\* strictly greater than at the previous update and 0 otherwise, and it is
\* left alone outside Endgame; the update ends with status SelfDestruct and
\* end_reason SelfDestruct exactly when the missile is in Endgame and the
\* count has reached endgame_miss_increase_ticks.
C22_SelfDestructWhenCountReachesTicks ==
    [][ChecksRun /\ is_in_simulation_bounds(missiles'[1].position) =>
          LET old == missiles[1]
              new == missiles'[1]
          IN  /\ new.miss_increase_count =
                     IF new.guidance_phase # "Endgame" THEN old.miss_increase_count
                     ELSE IF MissIncreased(new) THEN old.miss_increase_count + 1
                     ELSE 0
              /\ (new.status = "SelfDestruct" /\ new.end_reason = "SelfDestruct")
                     <=> (/\ new.guidance_phase = "Endgame"
                          /\ new.miss_increase_count
                                 >= new.endgame_miss_increase_ticks)]_vars

\* C23: an update of an Active missile that leaves it in bounds at a miss
\* distance of at most intercept_radius, exactly intercept_radius included,
\* ends with status Destroyed and end_reason Hit, whether or not the
\* self-destruct predicate fires in the same update.
C23_HitAtInterceptRadius ==
    [][/\ ChecksRun
       /\ is_in_simulation_bounds(missiles'[1].position)
       /\ LastMiss(missiles'[1]) <= missiles'[1].intercept_radius
       => /\ missiles'[1].status = "Destroyed"
          /\ missiles'[1].end_reason = "Hit"]_vars

\* an update that found the missile exactly intercept_radius from the target
\* position while the self-destruct predicate fired too, and ended as a hit
C23_Witness ==
    /\ pc \in {"tick", "perform_checks"}
    /\ is_in_simulation_bounds(missiles[1].position)
    /\ Len(missiles[1].miss_distance_history) >= 2
    /\ LastMiss(missiles[1]) = missiles[1].intercept_radius
    /\ SelfDestructFires(missiles[1])
    /\ missiles[1].status = "Destroyed"
    /\ missiles[1].end_reason = "Hit"

\* C24: once the missile's status is not Active, a tick, move_agent or
\* guidance call leaves every field of it unchanged.
C24_EndedMissileIsFrozen ==
    [][/\ missiles[1].status # "Active"
       /\ pc' \in {"tick", "move_agent", "guidance"}
       => missiles'[1] = missiles[1]]_vars

\* the place of a guidance phase in the order Boost < Midcourse < Endgame
PhaseRank(phase) ==
    CASE phase = "Boost" -> 1 [] phase = "Midcourse" -> 2 [] phase = "Endgame" -> 3

\* C25: the missile starts in Boost, and every call on it leaves its
\* guidance_phase where it was or moves it to the next phase of the order
\* Boost < Midcourse < Endgame; so it never moves backwards, never skips
\* Midcourse and never leaves Endgame.
C25_PhaseOnlyAdvances ==
    /\ [](pc = "initialize" => missiles[1].guidance_phase = "Boost")
    /\ [][LET old == PhaseRank(missiles[1].guidance_phase)
              new == PhaseRank(missiles'[1].guidance_phase)
          IN  new >= old /\ new <= old + 1]_vars

\* a missile that went through Boost and Midcourse and was updated again
\* after entering Endgame
C25_Witness ==
    /\ pc \in {"tick", "perform_checks"}
    /\ missiles[1].guidance_phase = "Endgame"
    /\ Len(missiles[1].miss_distance_history) >= 3

-----------------------------------------------------------------------------
(* Target alone: one target made by Target::new and set_parameters, then any
   sequence of check_spawn, tick and take_damage calls. targets holds the
   target, target_clock is the static CURRENT_TIME of Target::tick, pc names
   the last call and step_count counts the calls. *)

\* the number of calls made on the target
MaxTargetCalls == 4

\* start and destination: towards the command post, and towards a point on
\* the edge of the world region
TargetCourses ==
    { [start |-> Position3D(300, 0, 0), destination |-> Position3D(0, 0, 0)],
      [start |-> Position3D(RegionMax - 100, 0, 0),
       destination |-> Position3D(RegionMax, 0, 0)] }
TargetRadii == {10, 50}
TargetSpeeds == {50, 150}
SpawnTimes == {0, 2}
Damages == {1, 2}
\* the times check_spawn is called with
SpawnChecks == {0, 2}

TargetInit ==
    /\ scenario \in { ScenarioConfig(1, MaxTime, 1, 1, 3, TRUE, <<>>, 50) }
    /\ pc = "set_parameters"
    /\ targets \in
         { << Target_new("G001_T001", c.start, c.destination, "G001",
                         radius, endurance, spawn, speed) >> :
             c \in TargetCourses, radius \in TargetRadii,
             endurance \in 1..MaxEndurance, spawn \in SpawnTimes,
             speed \in TargetSpeeds }
    /\ missiles = <<>>
    /\ sensors = <<>>
    /\ launchers = <<>>
    /\ command_post = CommandPost_new(scenario)
    /\ current_time = 0
    /\ step_count = 0
    /\ target_clock = 0
    /\ sensor_clock = 0
    /\ returned = <<>>

TargetFrame ==
    UNCHANGED <<scenario, current_time, command_post, sensors, launchers,
                missiles, sensor_clock, returned>>

\* target.check_spawn(current_time)
Target_call_check_spawn(now) ==
    /\ step_count < MaxTargetCalls
    /\ targets' = << check_spawn(targets[1], now) >>
    /\ pc' = "check_spawn"
    /\ step_count' = step_count + 1
    /\ UNCHANGED target_clock
    /\ TargetFrame

\* target.tick(dt)
Target_call_tick(dt) ==
    /\ step_count < MaxTargetCalls
    /\ target_clock' = target_clock + dt
    /\ targets' = << Target_tick(targets[1], dt, target_clock') >>
    /\ pc' = "tick"
    /\ step_count' = step_count + 1
    /\ TargetFrame

\* target.take_damage(damage)
Target_call_take_damage(damage) ==
    /\ step_count < MaxTargetCalls
    /\ targets' = << take_damage(targets[1], damage) >>
    /\ pc' = "take_damage"
    /\ step_count' = step_count + 1
    /\ UNCHANGED target_clock
    /\ TargetFrame

TargetNext ==
    \/ \E now \in SpawnChecks : Target_call_check_spawn(now)
    \/ \E dt \in DtValues : Target_call_tick(dt)
    \/ \E damage \in Damages : Target_call_take_damage(damage)

SpecTarget == TargetInit /\ [][TargetNext]_vars

-----------------------------------------------------------------------------
(* Target outcomes (C26..C28) *)

\* removed for leaving the world region: check_out_of_bounds made it Inactive
\* where it stood (every start position is inside the region)
Removed(t) == t.status = "Inactive" /\ ~is_in_simulation_bounds(t.position)

\* Destroyed, Reached, or removed
Terminal(t) == t.status \in {"Destroyed", "Reached"} \/ Removed(t)

\* C26: once the target is Destroyed, Reached or removed for leaving the
\* region, no check_spawn, tick or take_damage call changes its status,
\* position or endurance.
C26_TerminalOutcomesAbsorbing ==
    [][Terminal(targets[1]) =>
          /\ targets'[1].status = targets[1].status
          /\ targets'[1].position = targets[1].position
          /\ targets'[1].endurance = targets[1].endurance]_vars

\* a tick in which the target moves: it is Active once check_spawn has run
TargetMoves ==
    /\ pc' = "tick"
    /\ check_spawn(targets[1], target_clock').status = "Active"

\* the target stands within arrival_radius of its destination, in the plane
Arrived(t) == DistXY(t.position, t.destination) <= t.arrival_radius

\* C27: a tick that moves the target to within arrival_radius of its
\* destination in the XY plane, the boundary included, leaves it Reached,
\* also when the new position is outside the world region.
C27_ArrivalBeforeOutOfBounds ==
    [][TargetMoves /\ Arrived(targets'[1]) => targets'[1].status = "Reached"]_vars

\* a target that ended a tick exactly arrival_radius from its destination and
\* outside the world region, and is Reached
C27_Witness ==
    /\ pc = "tick"
    /\ targets[1].status = "Reached"
    /\ DistXY(targets[1].position, targets[1].destination)
           = targets[1].arrival_radius
    /\ ~is_in_simulation_bounds(targets[1].position)

\* C28: after set_parameters, no check_spawn, tick or take_damage call raises
\* endurance, endurance never exceeds max_endurance, a take_damage call on a
\* target that is not Active changes nothing, and velocity stays the value
\* set_parameters computed: speed along the direction from the start
\* position to the destination.
C28_EnduranceAndVelocity ==
    /\ [](/\ targets[1].endurance <= targets[1].max_endurance
          /\ \E c \in TargetCourses :
                /\ targets[1].destination = c.destination
                /\ targets[1].velocity =
                       Vec3(Sgn(c.destination.x - c.start.x) * targets[1].speed,
                            0, 0))
    /\ [][/\ targets'[1].endurance <= targets[1].endurance
          /\ targets'[1].max_endurance = targets[1].max_endurance
          /\ targets'[1].velocity = targets[1].velocity
          /\ pc' = "take_damage" /\ targets[1].status # "Active"
                => targets'[1] = targets[1]]_vars

\* a take_damage call on a target that was damaged while Active and has
\* Reached its destination since: the call changed nothing
C28_Witness ==
    /\ pc = "take_damage"
    /\ targets[1].status = "Reached"
    /\ targets[1].endurance > 0
    /\ targets[1].endurance < targets[1].max_endurance

-----------------------------------------------------------------------------
(* Entity IDs (C29, C30) *)

\* a scenario whose two launchers carry the same id: validate() compares no
\* ids, and initialize_launchers copies them as they are
SameIdScenarios ==
    { [s EXCEPT !.launchers = [i \in DOMAIN @ |-> @[1]]] :
        s \in { ScenarioConfig(1, MaxTime, 2, 1, 3, TRUE,
                               <<GroupConfig("G001", 300, 0, 1, 100)>>, 50) } }

\* the engine entered with that scenario and pre-activated targets
InitSameIds ==
    \E s \in { s \in SameIdScenarios : validate(s) } :
        EngineInit(s, Activated(initialize_enemy_groups(s)), initialize_sensors(s))

\* run() on any scenario validate() accepts
SpecIds == (Init \/ InitActive \/ InitSameIds) /\ [][Next]_vars

\* the elements of a sequence are pairwise different
Distinct(ids) == \A i, j \in DOMAIN ids : i # j => ids[i] # ids[j]

\* the ids of the command post, the sensors, the launchers and the targets
StationIds ==
    <<command_post.id>>
        \o [i \in DOMAIN sensors |-> sensors[i].id]
        \o [i \in DOMAIN launchers |-> launchers[i].id]
        \o [i \in DOMAIN targets |-> targets[i].id]

\* the ids of the missiles in flight
MissileIds == [i \in DOMAIN missiles |-> missiles[i].id]

RECURSIVE MintedBy(_)
\* the ids of all missiles launched so far by the launchers ls
MintedBy(ls) ==
    IF ls = <<>> THEN <<>>
    ELSE [k \in DOMAIN Head(ls).launch_history |->
              Head(ls).launch_history[k].missile_id] \o MintedBy(Tail(ls))

\* C29: in every engine state the command post, the sensors, the launchers
\* and the targets have pairwise different ids, and so have the missiles in
\* flight and all missiles launched so far, whichever launcher fired them.
C29_EntityIdsUnique ==
    pc \in {"run", "targets", "missiles", "sensors", "command_post",
            "launchers", "advance", "cap", "done"} =>
        /\ Distinct(StationIds)
        /\ Distinct(MissileIds)
        /\ Distinct(MintedBy(launchers))

\* the same, for scenarios whose launcher ids are pairwise different
C29_UniqueGivenUniqueLauncherIds ==
    Distinct([i \in DOMAIN scenario.launchers |-> scenario.launchers[i].id]) =>
        C29_EntityIdsUnique

\* C30: every missile a fire call returns, on either fire path, has the id
\* <launcher_id>_M<NNN> with NNN the launcher's launch serial (1 for its
\* first launch) padded to three digits.
C30_MissileIdHasSerialAfterM ==
    pc \in FireCalls /\ Len(missiles) = 1 =>
        missiles[1].id = <<launchers[1].id, "_M", Pad3(launchers[1].missile_counter)>>

-----------------------------------------------------------------------------
(* TargetGroup alone: generate_positions pass by pass, then generate_targets.
   scenario holds the group as its only group, returned holds the locals of
   generate_positions (positions, remaining_count, ring_index), targets the
   vector generate_targets returns, and pc the place in the two functions. *)

\* enemy_forces.groups[].count
MaxCount == 14

\* the largest and the smallest value of ring_index (an i32)
I32Max == 2147483647
I32Min == -I32Max - 1

\* a group of n targets, with the fields of the ring placement
RingGroup(n, spacing, start_angle, half_offset) ==
    [id |-> "G001", x |-> 300, y |-> 0, z |-> 0, count |-> n,
     spawn_time_s |-> 2, endurance_pt |-> 1, speed_mps |-> 100,
     ring_spacing_m |-> spacing, start_angle_deg |-> start_angle,
     ring_half_offset |-> half_offset]

RingGroups ==
    { RingGroup(n, spacing, start_angle, half_offset) :
        n \in 0..MaxCount, spacing \in {0, 100}, start_angle \in {0, 90},
        half_offset \in BOOLEAN }

\* floor(2 * pi * k), from 2 * pi = 710 / 113 (right for every k below 113)
FloorTwoPi(k) == (k * 710) \div 113

\* round(2 * pi * k) in place of the truncation
max_positions_in_ring_rounded(g, ring_index) ==
    IF ring_index = 1 THEN 1
    ELSE IF g.ring_spacing_m = 0 \/ ring_index < 1 THEN 0
    ELSE (ring_index * 1420 + 113) \div 226

\* max_positions_in_ring: 1 for the centre, else (circumference /
\* ring_spacing) as usize, a cast that gives 0 for NaN (0.0 / 0.0 when
\* ring_spacing is 0) and for negative values
max_positions_in_ring(g, ring_index) ==
    IF ring_index = 1 THEN 1
    ELSE IF g.ring_spacing_m = 0 \/ ring_index < 1 THEN 0
    ELSE FloorTwoPi(ring_index)

\* the position pushed for slot i of a ring of p positions: the point at
\* ring_radius from the centre under the angle start_angle + i * angle_step
\* + angle_offset degrees, kept as the fraction num / den
RingPosition(g, ring_index, p, i) ==
    [center |-> Position3D(g.x, g.y, g.z),
     ring |-> ring_index,
     ring_radius |-> ring_index * g.ring_spacing_m,
     angle_num |-> g.start_angle_deg * 2 * p + i * 720
                     + (IF g.ring_half_offset /\ ring_index > 2 THEN 360 ELSE 0),
     angle_den |-> 2 * p]

\* the body of the while loop of generate_positions, without its last
\* statement ring_index += 1
ring_body(g, st) ==
    LET positions_in_ring ==
            Min(st.remaining_count, max_positions_in_ring(g, st.ring_index))
    IN  IF st.ring_index = 1 /\ positions_in_ring > 0
        THEN [st EXCEPT !.positions = Append(@, Position3D(g.x, g.y, g.z)),
                        !.remaining_count = @ - 1]
        ELSE IF st.ring_index > 1
        THEN [st EXCEPT
                 !.positions = @ \o [k \in 1..positions_in_ring |->
                                        RingPosition(g, st.ring_index,
                                                     positions_in_ring, k - 1)],
                 !.remaining_count = @ - positions_in_ring]
        ELSE st

\* a pass that places nothing and so changes ring_index alone
Idle(g, st) == ring_body(g, st) = st

\* Target::new and set_parameters as generate_targets calls them for the
\* index-th position; the velocity is speed along the unit vector from the
\* position to the destination, kept as that description
GroupTarget(g, s, index, position) ==
    [id |-> g.id \o "_T" \o ToString(index \div 100)
              \o ToString((index \div 10) % 10) \o ToString(index % 10),
     position |-> position,
     velocity |-> [from |-> position,
                   towards |-> Position3D(s.cp_x, s.cp_y, 0),
                   speed |-> g.speed_mps],
     destination |-> Position3D(s.cp_x, s.cp_y, 0),
     arrival_radius |-> s.arrival_radius_m,
     endurance |-> g.endurance_pt,
     max_endurance |-> g.endurance_pt,
     status |-> "Inactive",
     group_id |-> g.id,
     spawn_time |-> g.spawn_time_s,
     speed |-> g.speed_mps]

GroupInit ==
    /\ scenario \in { ScenarioConfig(1, MaxTime, 1, 1, 3, TRUE, <<g>>, 50) :
                        g \in RingGroups }
    /\ pc = "generate_positions"
    /\ returned = [positions |-> <<>>,
                   remaining_count |-> scenario.groups[1].count,
                   ring_index |-> 1]
    /\ targets = <<>>
    /\ missiles = <<>>
    /\ sensors = <<>>
    /\ launchers = <<>>
    /\ command_post = CommandPost_new(scenario)
    /\ current_time = 0
    /\ step_count = 0
    /\ target_clock = 0
    /\ sensor_clock = 0

GroupFrame ==
    UNCHANGED <<scenario, current_time, step_count, command_post, sensors,
                launchers, missiles, target_clock, sensor_clock>>

\* one pass of the loop that places something
ring_pass ==
    /\ pc = "generate_positions"
    /\ returned.remaining_count > 0
    /\ ~Idle(scenario.groups[1], returned)
    /\ returned' = [ring_body(scenario.groups[1], returned)
                       EXCEPT !.ring_index = @ + 1]
    /\ UNCHANGED <<pc, targets>>
    /\ GroupFrame

\* the passes that place nothing, taken together: all of them up to
\* ring_index = 1 from below, or up to the largest i32 from above, change
\* nothing but ring_index
idle_passes ==
    /\ pc = "generate_positions"
    /\ returned.remaining_count > 0
    /\ Idle(scenario.groups[1], returned)
    /\ returned.ring_index < I32Max
    /\ returned' = [returned EXCEPT
                       !.ring_index = IF @ < 1 THEN 1 ELSE I32Max]
    /\ UNCHANGED <<pc, targets>>
    /\ GroupFrame

\* ring_index += 1 at the largest i32, in a build with overflow checks
overflow_panic ==
    /\ pc = "generate_positions"
    /\ returned.remaining_count > 0
    /\ returned.ring_index = I32Max
    /\ pc' = "overflow_panic"
    /\ UNCHANGED <<returned, targets>>
    /\ GroupFrame

\* ring_index += 1 at the largest i32, in a build without overflow checks
overflow_wrap ==
    /\ pc = "generate_positions"
    /\ returned.remaining_count > 0
    /\ returned.ring_index = I32Max
    /\ returned' = [returned EXCEPT !.ring_index = I32Min]
    /\ UNCHANGED <<pc, targets>>
    /\ GroupFrame

\* the loop ends and generate_positions returns
return_positions ==
    /\ pc = "generate_positions"
    /\ returned.remaining_count = 0
    /\ pc' = "positions_returned"
    /\ UNCHANGED <<returned, targets>>
    /\ GroupFrame

\* generate_targets, after its call of generate_positions
Group_generate_targets ==
    /\ pc = "positions_returned"
    /\ targets' = [i \in 1..Len(returned.positions) |->
                      GroupTarget(scenario.groups[1], scenario, i,
                                  returned.positions[i])]
    /\ pc' = "targets_generated"
    /\ UNCHANGED returned
    /\ GroupFrame

GroupNext ==
    \/ ring_pass
    \/ idle_passes
    \/ overflow_panic
    \/ overflow_wrap
    \/ return_positions
    \/ Group_generate_targets

SpecGroup == GroupInit /\ [][GroupNext]_vars

-----------------------------------------------------------------------------
(* Target groups (C31, C39) *)

\* the ring a generated target stands on: 1 for the centre
RingOf(t) == IF "ring" \in DOMAIN t.position THEN t.position.ring ELSE 1

\* the number of targets a ring takes: floor(2 * pi * k) beyond the centre
RingCapacity(k) == CASE k = 1 -> 1 [] k = 2 -> 12 [] k = 3 -> 18 [] k = 4 -> 25

RECURSIVE PlacedBefore(_)
\* the number of targets on the rings inside ring k when those are full
PlacedBefore(k) == IF k = 1 THEN 0 ELSE PlacedBefore(k - 1) + RingCapacity(k - 1)

\* C31: for a group of n >= 1 targets with ring_spacing > 0, generate_targets
\* returns n Inactive targets named <group_id>_T001 .. <group_id>_T<n> in
\* placement order, the first at the centre, ring k holding
\* min(remaining, floor(2 * pi * k)) targets before ring k + 1 is started,
\* all with the group's destination, arrival_radius, endurance, spawn_time
\* and speed.
C31_GroupTargetsInRingOrder ==
    LET g == scenario.groups[1]
        n == g.count
    IN  pc = "targets_generated" /\ n >= 1 /\ g.ring_spacing_m > 0 =>
          /\ Len(targets) = n
          /\ targets[1].position = Position3D(g.x, g.y, g.z)
          /\ \A i \in 1..Len(targets) :
                /\ targets[i].status = "Inactive"
                /\ targets[i].id = g.id \o "_T0" \o (IF i < 10 THEN "0" ELSE "")
                                       \o ToString(i)
                /\ targets[i].group_id = g.id
                /\ targets[i].destination = command_post.position
                /\ targets[i].arrival_radius = scenario.arrival_radius_m
                /\ targets[i].endurance = g.endurance_pt
                /\ targets[i].spawn_time = g.spawn_time_s
                /\ targets[i].speed = g.speed_mps
                /\ i > 1 => RingOf(targets[i]) >= RingOf(targets[i - 1])
          /\ \A k \in { RingOf(targets[i]) : i \in 1..Len(targets) } :
                Cardinality({ i \in 1..Len(targets) : RingOf(targets[i]) = k })
                    = Min(n - PlacedBefore(k), RingCapacity(k))

\* a group large enough to fill the centre and the second ring and to start
\* the third
C31_Witness ==
    /\ pc = "targets_generated"
    /\ scenario.groups[1].ring_spacing_m > 0
    /\ Len(targets) > 13
    /\ RingOf(targets[13]) = 2
    /\ RingOf(targets[14]) = 3
    /\ targets[14].id = "G001_T014"

\* C39: generate_positions ends by returning, whatever count and
\* ring_spacing are (ring_spacing 0 with count >= 2 included), and what it
\* returns has exactly count positions.
C39_GeneratePositionsReturnsCount ==
    /\ pc # "overflow_panic"
    /\ pc = "positions_returned" =>
           Len(returned.positions) = scenario.groups[1].count


-----------------------------------------------------------------------------
(* CommandPost allocation: execute_assignments, allocate and
   on_missile_destroyed called directly on a command post and its launchers.
   pc names the last call; step_count counts the calls; returned holds the
   argument of the last on_missile_destroyed. *)

MaxAllocCalls == 4

\* IPlatform::launch for Launcher: the time it hands to fire_missile is read
\* from a function-local static that nothing ever writes, 0.0
Launcher_launch(l, target_id) == fire_missile(l, target_id, 0)

\* missile_assignments.entry(target_id).or_insert_with(Vec::new).push(id)
PushAssignment(assignments, target_id, missile_id) ==
    IF target_id \in DOMAIN assignments
    THEN [assignments EXCEPT ![target_id] = Append(@, missile_id)]
    ELSE [t \in DOMAIN assignments \cup {target_id} |->
              IF t = target_id THEN <<missile_id>> ELSE assignments[t]]

\* the body of execute_assignments' loop for one entry of target_priorities:
\* st is [cp, launchers]
AssignOne(st, priority) ==
    IF priority.assigned_missiles >= priority.target_endurance THEN st
    ELSE LET chosen == select_best_launcher(st.cp, st.launchers, Position3D(0, 0, 0))
         IN  IF chosen = <<>> THEN st
             ELSE LET fired == Launcher_launch(st.launchers[chosen[1]], priority.target_id)
                  IN  IF fired.missile = <<>> THEN st
                      ELSE [cp |-> [st.cp EXCEPT !.missile_assignments =
                                        PushAssignment(@, priority.target_id, fired.missile[1].id)],
                            launchers |-> [st.launchers EXCEPT ![chosen[1]] = fired.launcher]]

RECURSIVE AssignLoop(_, _)
AssignLoop(st, k) ==
    IF k > Len(st.cp.target_priorities) THEN st
    ELSE AssignLoop(Only({ AssignOne(st, st.cp.target_priorities[k]) }), k + 1)

\* CommandPost::execute_assignments
execute_assignments(cp, ls) == AssignLoop([cp |-> cp, launchers |-> ls], 1)

\* IAllocator::allocate
allocate(cp, detected, ls) ==
    execute_assignments([cp EXCEPT !.detected_targets = detected], ls)

Retain(ids, missile_id) == SelectSeq(ids, LAMBDA id : id # missile_id)

RECURSIVE Before(_, _)
Before(ids, missile_id) ==
    IF ids = <<>> \/ Head(ids) = missile_id THEN <<>>
    ELSE <<Head(ids)>> \o Before(Tail(ids), missile_id)

\* a faulty on_missile_destroyed: it drops the missile and every ID pushed
\* after it (C32 tells the two apart)
on_missile_destroyed_truncating(cp, missile_id) ==
    [cp EXCEPT !.missile_assignments =
        [t \in DOMAIN @ |-> Before(@[t], missile_id)]]

\* CommandPost::on_missile_destroyed
on_missile_destroyed(cp, missile_id) ==
    [cp EXCEPT !.missile_assignments =
        [t \in DOMAIN @ |-> Retain(@[t], missile_id)]]

AllocScenarios ==
    { ScenarioConfig(1, MaxTime, n, mag, cd, TRUE, <<>>, 50) :
        n \in 1..MaxLaunchers, mag \in 1..MaxMagazine, cd \in {0, 3} }

AllocTarget(k, end) ==
    Target_new(TargetIdOrder[k], Position3D(100 * k, 0, 0), Position3D(0, 0, 0), "G", 100, end, 0, 100)

AllocPopulations ==
    { << [AllocTarget(1, a) EXCEPT !.status = "Active"],
         [AllocTarget(2, b) EXCEPT !.status = "Active"] >> :
        a \in 1..MaxEndurance, b \in 1..MaxEndurance }

AllocInit ==
    /\ scenario \in AllocScenarios
    /\ pc = "update_target_list"
    /\ targets \in AllocPopulations
    /\ command_post = update_target_list(CommandPost_new(scenario), targets)
    /\ launchers = [i \in 1..Len(scenario.launchers) |->
                        Launcher_new(scenario.launchers[i], scenario)]
    /\ missiles = <<>>
    /\ sensors = <<>>
    /\ current_time = 0
    /\ step_count = 0
    /\ target_clock = 0
    /\ sensor_clock = 0
    /\ returned = <<>>

AllocFrame ==
    UNCHANGED <<scenario, current_time, sensors, targets, missiles,
                target_clock, sensor_clock>>

Alloc_call_execute_assignments ==
    /\ step_count < MaxAllocCalls
    /\ LET st == execute_assignments(command_post, launchers)
       IN  /\ command_post' = st.cp
           /\ launchers' = st.launchers
    /\ pc' = "execute_assignments"
    /\ step_count' = step_count + 1
    /\ UNCHANGED returned
    /\ AllocFrame

Alloc_call_allocate ==
    /\ step_count < MaxAllocCalls
    /\ \E n \in 0..Len(targets) :
          LET detected == [i \in 1..n |-> targets[i].id]
              st == allocate(command_post, detected, launchers)
          IN  /\ command_post' = st.cp
              /\ launchers' = st.launchers
    /\ pc' = "allocate"
    /\ step_count' = step_count + 1
    /\ UNCHANGED returned
    /\ AllocFrame

Alloc_call_update_target_list ==
    /\ step_count < MaxAllocCalls
    /\ command_post' = update_target_list(command_post, targets)
    /\ pc' = "update_target_list"
    /\ step_count' = step_count + 1
    /\ UNCHANGED <<launchers, returned>>
    /\ AllocFrame

Alloc_call_on_missile_destroyed ==
    /\ step_count < MaxAllocCalls
    /\ \E i \in 1..Len(launchers), n \in 1..MaxMagazine :
          LET missile_id == MissileIdM(launchers[i].id, n)
          IN  /\ command_post' = on_missile_destroyed(command_post, missile_id)
              /\ returned' = <<missile_id>>
    /\ pc' = "on_missile_destroyed"
    /\ step_count' = step_count + 1
    /\ UNCHANGED launchers
    /\ AllocFrame

Alloc_call_tick ==
    /\ step_count < MaxAllocCalls
    /\ launchers' = [i \in 1..Len(launchers) |->
                        Launcher_tick(launchers[i], scenario.dt_s)]
    /\ pc' = "tick"
    /\ step_count' = step_count + 1
    /\ UNCHANGED <<command_post, returned>>
    /\ AllocFrame

AllocNext ==
    \/ Alloc_call_execute_assignments
    \/ Alloc_call_allocate
    \/ Alloc_call_update_target_list
    \/ Alloc_call_on_missile_destroyed
    \/ Alloc_call_tick

SpecAllocate == AllocInit /\ [][AllocNext]_vars

Recorded(cp) ==
    UNION { { cp.missile_assignments[t][i] : i \in 1..Len(cp.missile_assignments[t]) } :
            t \in DOMAIN cp.missile_assignments }

\* C32: on_missile_destroyed(m) takes m out of every list of the assignments,
\* leaves every other ID in its list and in its place, and changes nothing
\* else of the command post or of the launchers.
C32_OnMissileDestroyedRemovesOnlyThatId ==
    [][pc' = "on_missile_destroyed" =>
        LET m == returned'[1]
            old == command_post.missile_assignments
            new == command_post'.missile_assignments
        IN  /\ DOMAIN new = DOMAIN old
            /\ \A t \in DOMAIN old :
                  /\ \A i \in 1..Len(new[t]) : new[t][i] # m
                  /\ new[t] = SelectSeq(old[t], LAMBDA id : id # m)
            /\ command_post'.detected_targets = command_post.detected_targets
            /\ command_post'.target_priorities = command_post.target_priorities
            /\ [command_post' EXCEPT !.missile_assignments = old] = command_post
            /\ launchers' = launchers]_vars

Minted ==
    UNION { { launchers[i].launch_history[k].missile_id :
                k \in 1..Len(launchers[i].launch_history) } :
            i \in 1..Len(launchers) }

\* a missile that was recorded has been taken out of a list that keeps
\* another one
C32_Witness ==
    /\ pc = "on_missile_destroyed"
    /\ returned[1] \in Minted
    /\ returned[1] \notin Recorded(command_post)
    /\ \E i \in 1..Len(launchers) :
          \E k \in 1..Len(launchers[i].launch_history) :
             LET record == launchers[i].launch_history[k]
             IN  /\ record.missile_id = returned[1]
                 /\ record.target_id \in DOMAIN command_post.missile_assignments
                 /\ Len(command_post.missile_assignments[record.target_id]) >= 1

\* C36: the IDs recorded against a target never outnumber its endurance,
\* whatever sequence of allocate / execute_assignments calls is made, and
\* one call launches at most one missile per target.
C36_AssignmentsWithinEndurance ==
    /\ [](\A i \in 1..Len(targets) :
            AssignedCount(command_post.missile_assignments, targets[i].id)
                <= targets[i].endurance)
    /\ [][pc' \in {"execute_assignments", "allocate"} =>
            \A i \in 1..Len(targets) :
                AssignedCount(command_post'.missile_assignments, targets[i].id)
                    <= AssignedCount(command_post.missile_assignments, targets[i].id) + 1]_vars


-----------------------------------------------------------------------------
(* Launch records *)

\* the records a step appends to the history of launcher i
NewRecords(i) ==
    { launchers'[i].launch_history[k] :
        k \in (Len(launchers[i].launch_history) + 1)..Len(launchers'[i].launch_history) }

-----------------------------------------------------------------------------
(* The sensor phase of the engine on its own: process_sensors as above,
   followed by the advance of current_time; the other phases are stood for by
   the targets they may leave behind. *)

MaxSensors == 2
MaxSensorTime == 90

SensorIdOrder == <<"S001", "S002", "S003">>

SensorPhaseScenarios ==
    { ScenarioConfig(dt, MaxSensorTime, 1, 1, 3, TRUE, <<>>, 50) : dt \in {20, 30} }

SensorPhaseTargets ==
    { << SensorTarget(1, <<300, 0>>, x) >> : x \in {"Active", "Inactive"} }

SensorPhaseInit ==
    /\ scenario \in SensorPhaseScenarios
    /\ pc = "sensors"
    /\ \E n \in 1..MaxSensors :
          sensors = [i \in 1..n |->
                        Sensor_new([id |-> SensorIdOrder[i], x |-> 0, y |-> 0,
                                    z |-> 0, range_m |-> SensorRange])]
    /\ targets \in SensorPhaseTargets
    /\ command_post = CommandPost_new(scenario)
    /\ launchers = <<>>
    /\ missiles = <<>>
    /\ current_time = 0
    /\ step_count = 0
    /\ target_clock = 0
    /\ sensor_clock = 0
    /\ returned = <<>>

\* the rest of a step of run: current_time += dt, and the targets as the
\* next step's process_targets leaves them
SensorPhase_advance ==
    /\ pc = "command_post"
    /\ current_time + scenario.dt_s < scenario.t_max_s
    /\ current_time' = current_time + scenario.dt_s
    /\ step_count' = step_count + 1
    /\ targets' \in SensorPhaseTargets
    /\ pc' = "sensors"
    /\ UNCHANGED <<scenario, command_post, sensors, launchers, missiles,
                   target_clock, sensor_clock, returned>>

SensorPhaseNext ==
    \/ process_sensors
    \/ SensorPhase_advance

SpecSensorPhase == SensorPhaseInit /\ [][SensorPhaseNext]_vars

\* the events of a history
Events(history) == { history[k] : k \in 1..Len(history) }

\* C38: the tick of a sensor removes no event whose timestamp is within the
\* 60 seconds before the engine's current_time, however many sensors the
\* engine runs, and it leaves the detected IDs as update_detections set them.
C38_RecentEventsAreKept ==
    [][pc = "sensors" /\ pc' = "command_post" =>
        \A i \in 1..Len(sensors) :
           /\ \A e \in Events(sensors[i].detection_history) :
                 e.timestamp >= current_time - HistoryWindow
                     => e \in Events(sensors'[i].detection_history)
           /\ sensors'[i].detected_targets = CurrentlyDetected(sensors[i], targets)]_vars


-----------------------------------------------------------------------------
(* Spawning through Target::tick: a driver that, in every step of dt, ticks
   each of its targets at most once and then advances the simulated time.
   returned holds the indices of the targets ticked in the current step. *)

MaxTargets == 2

SpawnInit ==
    /\ scenario \in { ScenarioConfig(dt, MaxTime, 1, 1, 3, TRUE, <<>>, 50) : dt \in DtValues }
    /\ pc = "set_parameters"
    /\ \E n \in 1..MaxTargets :
          targets \in [1..n -> { Target_new(TargetIdOrder[k], Position3D(300, 0, 0), Position3D(0, 0, 0), "G", 10, 1, spawn, 50) :
                                   k \in 1..n, spawn \in {2, 4} }]
    /\ \A i \in DOMAIN targets : targets[i].id = TargetIdOrder[i]
    /\ missiles = <<>>
    /\ sensors = <<>>
    /\ launchers = <<>>
    /\ command_post = CommandPost_new(scenario)
    /\ current_time = 0
    /\ step_count = 0
    /\ target_clock = 0
    /\ sensor_clock = 0
    /\ returned = {}

\* targets[i].tick(dt)
Spawn_call_tick(i) ==
    /\ i \notin returned
    /\ target_clock' = target_clock + scenario.dt_s
    /\ targets' = [targets EXCEPT ![i] = Target_tick(@, scenario.dt_s, target_clock')]
    /\ returned' = returned \cup {i}
    /\ pc' = "tick"
    /\ UNCHANGED <<scenario, current_time, step_count, command_post, sensors,
                   launchers, missiles, sensor_clock>>

\* the end of the step: current_time += dt
Spawn_advance ==
    /\ current_time < scenario.t_max_s
    /\ current_time' = current_time + scenario.dt_s
    /\ step_count' = step_count + 1
    /\ returned' = {}
    /\ pc' = "advance"
    /\ UNCHANGED <<scenario, command_post, sensors, launchers, targets,
                   missiles, target_clock, sensor_clock>>

SpawnNext ==
    \/ \E i \in 1..Len(targets) : Spawn_call_tick(i)
    \/ Spawn_advance

SpecSpawn == SpawnInit /\ [][SpawnNext]_vars

\* C37: no target is made Active by a tick while the simulated time is
\* before its spawn_time, however many targets are ticked in a step and
\* whatever was ticked before.  The time taken here is the one most
\* favourable to the code, the end of the step being ticked.
C37_NoSpawnBeforeSpawnTime ==
    \A i \in 1..Len(targets) :
        targets[i].status = "Active"
            => targets[i].spawn_time <= current_time + scenario.dt_s


-----------------------------------------------------------------------------
(* Missile kinematics: update_kinematics and update_guidance_phase called
   directly on one missile, over speed and acceleration limits that the
   updates reach.  pc names the last call; step_count counts the calls. *)

MaxKinematicsCalls == 4

KinematicsScenarios ==
    { [ScenarioConfig(1, MaxTime, 1, 1, 3, TRUE, <<>>, 20) EXCEPT
           !.kinematics = [initial_speed_mps |-> v, max_speed_mps |-> vmax,
                           max_accel_mps2 |-> amax, intercept_radius_m |-> 20]] :
        v \in {0, 10, 40}, vmax \in {10, 30}, amax \in {0, 8, 40} }

KinematicsAltitudes == {0, 100, ZMax}

KinematicsInit ==
    /\ scenario \in KinematicsScenarios
    /\ pc = "initialize"
    /\ missiles = << Missile_new("M001", Position3D(0, 0, 0), TargetIdOrder[1], scenario) >>
    /\ targets = <<>>
    /\ sensors = <<>>
    /\ launchers = <<>>
    /\ command_post = CommandPost_new(scenario)
    /\ current_time = 0
    /\ step_count = 0
    /\ target_clock = 0
    /\ sensor_clock = 0
    /\ returned = <<>>

\* missile.update_kinematics(dt, target_position)
Missile_call_update_kinematics(dt, altitude) ==
    /\ step_count < MaxKinematicsCalls
    /\ missiles' = << update_kinematics(missiles[1], dt, Above(missiles[1], altitude)) >>
    /\ pc' = "update_kinematics"
    /\ step_count' = step_count + 1
    /\ MissileFrame

\* missile.update_guidance_phase(target_position)
Missile_call_update_guidance_phase(altitude) ==
    /\ step_count < MaxKinematicsCalls
    /\ missiles' = << update_guidance_phase(missiles[1], Above(missiles[1], altitude)) >>
    /\ pc' = "update_guidance_phase"
    /\ step_count' = step_count + 1
    /\ MissileFrame

KinematicsNext ==
    \/ \E dt \in MissileDts, altitude \in KinematicsAltitudes :
          Missile_call_update_kinematics(dt, altitude)
    \/ \E altitude \in KinematicsAltitudes :
          Missile_call_update_guidance_phase(altitude)

SpecKinematics == KinematicsInit /\ [][KinematicsNext]_vars

\* the magnitude of a vertical vector
MagnitudeVertical(v) == Abs(v.z)

\* C33: after every update of a missile its speed is at most max_speed and
\* the magnitude of its stored acceleration is at most max_accel.
C33_SpeedAndAccelerationWithinLimits ==
    pc = "update_kinematics" =>
        /\ missiles[1].velocity.x = 0 /\ missiles[1].velocity.y = 0
        /\ missiles[1].acceleration.x = 0 /\ missiles[1].acceleration.y = 0
        /\ MagnitudeVertical(missiles[1].velocity) <= missiles[1].max_speed
        /\ MagnitudeVertical(missiles[1].acceleration) <= missiles[1].max_accel

\* an update past Boost that commanded the full max_accel and left the
\* missile at max_speed
C33_Witness ==
    /\ pc = "update_kinematics"
    /\ missiles[1].guidance_phase # "Boost"
    /\ missiles[1].max_accel > 0
    /\ MagnitudeVertical(missiles[1].acceleration) = missiles[1].max_accel
    /\ MagnitudeVertical(missiles[1].velocity) = missiles[1].max_speed


-----------------------------------------------------------------------------
(* The launcher phase of the engine on its own: process_launchers and
   advance as above, over a command post whose priority list keeps offering
   a target; the other phases of a step are stood for by the return to the
   launcher phase. *)

CooldownScenarios ==
    { ScenarioConfig(dt, MaxTime, n, mag, cd, cooled, <<>>, 50) :
        dt \in DtValues, n \in 1..MaxLaunchers, mag \in 1..MaxMagazine,
        cd \in {0, 1, 3, 4}, cooled \in BOOLEAN }

CooldownInit ==
    /\ scenario \in CooldownScenarios
    /\ pc = "launchers"
    /\ targets \in AllocPopulations
    /\ command_post = update_target_list(CommandPost_new(scenario), targets)
    /\ launchers = [i \in 1..Len(scenario.launchers) |->
                        Launcher_new(scenario.launchers[i], scenario)]
    /\ missiles = <<>>
    /\ sensors = <<>>
    /\ current_time = 0
    /\ step_count = 0
    /\ target_clock = 0
    /\ sensor_clock = 0
    /\ returned = <<>>

\* the loop of run back to the launcher phase of the next step
Cooldown_next_step ==
    /\ pc = "cap"
    /\ current_time < scenario.t_max_s
    /\ pc' = "launchers"
    /\ UNCHANGED <<scenario, current_time, step_count, command_post, sensors,
                   launchers, targets, missiles, target_clock, sensor_clock,
                   returned>>

CooldownNext ==
    \/ process_launchers
    \/ advance
    \/ Cooldown_next_step

SpecCooldown == CooldownInit /\ [][CooldownNext]_vars


CeilDiv(a, b) == (a + b - 1) \div b

\* launcher i has just made its n-th launch in the tick of time t: the
\* launcher phase of that tick is over and its cooldown has been reloaded
\* and ticked once
JustLaunched(i, n, t) ==
    /\ pc = "advance"
    /\ current_time = t
    /\ i <= Len(launchers)
    /\ Len(launchers[i].launch_history) = n
    /\ launchers[i].cooldown_time > scenario.dt_s
    /\ launchers[i].cooldown_remaining = launchers[i].cooldown_time - scenario.dt_s

\* no later launch of launcher i before ceil(cooldown_time / dt) ticks, hence
\* cooldown_time seconds, have gone by since t
NextLaunchWaits(i, n, t) ==
    i <= Len(launchers) /\ Len(launchers[i].launch_history) > n
        => current_time - t >=
               CeilDiv(launchers[i].cooldown_time, scenario.dt_s) * scenario.dt_s

\* C35: two consecutive launches of one launcher are at least cooldown_time
\* of simulated time, ceil(cooldown_time / dt) ticks, apart; a launch reloads
\* the cooldown; between launches cooldown_remaining never increases from
\* tick to tick and it is never below 0.
C35_CooldownSeparatesLaunches ==
    /\ \A i \in 1..MaxLaunchers : \A n \in 1..MaxMagazine : \A t \in 0..MaxTime :
          [](JustLaunched(i, n, t) => [](NextLaunchWaits(i, n, t)))
    /\ [][\A i \in 1..Len(launchers) :
            LET fires == Len(launchers'[i].launch_history) > Len(launchers[i].launch_history)
            IN  /\ Len(launchers'[i].launch_history) <= Len(launchers[i].launch_history) + 1
                /\ fires => /\ pc = "launchers"
                            /\ launchers'[i].cooldown_remaining =
                                   Max(launchers[i].cooldown_time - scenario.dt_s, 0)
                /\ ~fires => launchers'[i].cooldown_remaining <= launchers[i].cooldown_remaining]_vars
    /\ [](\A i \in 1..Len(launchers) : launchers[i].cooldown_remaining >= 0)

\* a launcher has made its second launch
C35_Witness ==
    /\ pc = "advance"
    /\ current_time > 0
    /\ \E i \in 1..Len(launchers) :
          /\ Len(launchers[i].launch_history) = 2
          /\ launchers[i].cooldown_time > scenario.dt_s
          /\ launchers[i].cooldown_remaining = launchers[i].cooldown_time - scenario.dt_s


-----------------------------------------------------------------------------
(* Retrying an unfilled slot *)

\* the targets that are Active, detected by a sensor and short of missiles
UnderCovered ==
    { j \in 1..Len(targets) :
        /\ DetectedActive(targets[j])
        /\ AssignedCount(command_post.missile_assignments, targets[j].id)
               < targets[j].endurance }

\* what the priority order looks at
RankOf(j) ==
    [target_id |-> targets[j].id,
     tgo |-> calculate_time_to_go(targets[j]),
     distance_xy |-> DistXY(targets[j].position, command_post.position)]

\* target j is the highest-priority under-covered target
TopUnderCovered(j) ==
    /\ j \in UnderCovered
    /\ \A k \in UnderCovered \ {j} : PriorityLess(RankOf(j), RankOf(k))

\* the missiles a step adds
Launched == { missiles'[k] : k \in (Len(missiles) + 1)..Len(missiles') }

\* C34: in every tick before t_max whose launcher phase finds an Active
\* launcher with a missile left and cooldown_remaining 0, a missile is
\* launched against the highest-priority target that is Active, detected
\* and under-covered: the slot is tried again on every tick until filled.
C34_UnfilledSlotRetriedEveryTick ==
    [][/\ pc = "launchers"
       /\ current_time < scenario.t_max_s
       /\ \E i \in 1..Len(launchers) : Ready(launchers[i])
       => \A j \in 1..Len(targets) :
             TopUnderCovered(j) =>
                 \E m \in Launched : m.target_id = targets[j].id]_vars

\* a launcher that had to wait for its cooldown has launched a second
\* missile against a target that is still Active and detected
C34_Witness ==
    /\ pc = "advance"
    /\ current_time > 0
    /\ \E i \in 1..Len(launchers) :
          /\ Len(launchers[i].launch_history) = 2
          /\ launchers[i].cooldown_remaining = launchers[i].cooldown_time - scenario.dt_s
          /\ \E j \in 1..Len(targets) :
                /\ launchers[i].launch_history[2].target_id = targets[j].id
                /\ TopUnderCovered(j)
          /\ \E k \in 1..Len(missiles) :
                /\ missiles[k].id = launchers[i].launch_history[2].missile_id
                /\ missiles[k].flight_time = 0

====
